---------------------------- MODULE Spec2Model ----------------------------
(***************************************************************************)
(* A model of acp (src/src/deck.rs, src/src/apkg.rs): the codec between an *)
(* Anki collection database and its in-memory object graph.                *)
(*                                                                         *)
(* The module holds several specifications over one set of variables:      *)
(*   SpecEnum   the integer <-> variant codecs of the enums                *)
(*   SpecDoc    the parsers and serializers of the JSON documents          *)
(*   Spec       Collection::new / Collection::save on a database           *)
(*   SpecNote   Collection::new / Note::save_all on the notes table        *)
(*   SpecApkg   Apkg::new / Apkg::save on an archive and a file system      *)
(* A specification leaves the variables of the others at Idle.             *)
(***************************************************************************)
EXTENDS Integers, Sequences, FiniteSets, TLC

VARIABLES
    eop,        \* SpecEnum: the last enum conversion performed
    doc,        \* document specs: the document text handed to the parser
    parsed,     \* document specs: Result of parsing doc
    emitted,    \* document specs: the document serialized from parsed
    reparsed,   \* document specs: Result of parsing emitted
    db,         \* Spec: the database at the path given to Collection::new
    fresh,      \* Spec: the database at the path given to Collection::save
    loaded,     \* Spec: outcome of Collection::new(db)
    saved,      \* Spec: outcome of Collection::save(fresh), with the rows before
    reloaded,   \* Spec: outcome of Collection::new(fresh) after the save
    archive,    \* SpecApkg: the file at the path given to Apkg::new
    fs,         \* SpecApkg: the file system, a function from paths to nodes
    apkg,       \* SpecApkg: outcome of Apkg::new(archive)
    closed      \* SpecApkg: how the container ended: dropped, or Apkg::save

vars == <<eop, doc, parsed, emitted, reparsed, db, fresh, loaded, saved, reloaded,
          archive, fs, apkg, closed>>

varsEnum == <<eop>>
varsDoc == <<doc, parsed, emitted, reparsed>>
varsColl == <<db, fresh, loaded, saved, reloaded>>
varsApkg == <<archive, fs, apkg, closed>>

Idle == [tag |-> "Idle"]

-----------------------------------------------------------------------------
(* Bounds of the model.                                                    *)

\* integer codes -MaxCode..MaxCode are handed to the enum decoders
MaxCode == 6

-----------------------------------------------------------------------------
(* Results: Rust's Result<T, E>, plus the panic of an unwrap()/expect().   *)

Ok(x) == [tag |-> "Ok", val |-> x]
Err(kind, m) == [tag |-> "Err", kind |-> kind, msg |-> m]
Panic(m) == [tag |-> "Panic", msg |-> m]
IsOk(r) == r.tag = "Ok"

\* Rust's Option<T>
None == [some |-> FALSE]
Some(x) == [some |-> TRUE, x |-> x]

-----------------------------------------------------------------------------
(* Enum Codec (deck.rs).  Variants are strings; `from` is impl From<i64>,  *)
(* `into` is impl Into<i64>.                                               *)


CardType_from(i) ==
    CASE i = 1 -> "Learning"
      [] i = 2 -> "Review"
      [] i = 3 -> "Relearning"
      [] OTHER -> "New"

CardType_into(v) ==
    CASE v = "New" -> 0
      [] v = "Learning" -> 1
      [] v = "Review" -> 2
      [] v = "Relearning" -> 3


CardQueue_from(i) ==
    CASE i = -3 -> "UserBuried"
      [] i = -2 -> "Buried"
      [] i = -1 -> "Suspended"
      [] i = 1 -> "Learning"
      [] i = 2 -> "Review"
      [] i = 3 -> "InLearning"
      [] i = 4 -> "Preview"
      [] OTHER -> "New"

CardQueue_into_Mutant(v) ==
    CASE v = "UserBuried" -> -3
      [] v = "Buried" -> -2
      [] v = "Suspended" -> -1
      [] v = "New" -> 0
      [] v = "Learning" -> 1
      [] v = "Review" -> 2
      [] v = "InLearning" -> 3
      [] v = "Preview" -> 5

CardQueue_into(v) ==
    CASE v = "UserBuried" -> -3
      [] v = "Buried" -> -2
      [] v = "Suspended" -> -1
      [] v = "New" -> 0
      [] v = "Learning" -> 1
      [] v = "Review" -> 2
      [] v = "InLearning" -> 3
      [] v = "Preview" -> 4


ModelType_from(i) ==
    CASE i = 1 -> "Cloze"
      [] OTHER -> "Standard"

ModelType_into(v) ==
    CASE v = "Standard" -> 0
      [] v = "Cloze" -> 1


LeechAction_from(i) ==
    CASE i = 1 -> "Mark"
      [] OTHER -> "Suspend"

LeechAction_into(v) ==
    CASE v = "Suspend" -> 0
      [] v = "Mark" -> 1


NewOrder_from(i) ==
    CASE i = 1 -> "Due"
      [] OTHER -> "Random"

NewOrder_into(v) ==
    CASE v = "Random" -> 0
      [] v = "Due" -> 1


NewSpread_from(i) ==
    CASE i = 1 -> "Last"
      [] i = 2 -> "First"
      [] OTHER -> "Distribute"

NewSpread_into(v) ==
    CASE v = "Distribute" -> 0
      [] v = "Last" -> 1
      [] v = "First" -> 2


GraveType_from_Mutant(i) ==
    CASE i = 1 -> "Note"
      [] i = 2 -> "Deck"
      [] i = 3 -> "Deck"
      [] OTHER -> "Card"

GraveType_from(i) ==
    CASE i = 1 -> "Note"
      [] i = 2 -> "Deck"
      [] OTHER -> "Card"

GraveType_into(v) ==
    CASE v = "Card" -> 0
      [] v = "Note" -> 1
      [] v = "Deck" -> 2


ReviewAnswer_from_i64(is_review, i) ==
    IF is_review
    THEN CASE i = 2 -> "Hard"
           [] i = 3 -> "OK"
           [] i = 4 -> "Easy"
           [] OTHER -> "Wrong"
    ELSE CASE i = 2 -> "OK"
           [] i = 3 -> "Easy"
           [] OTHER -> "Wrong"

ReviewAnswer_into_i64_Mutant(self, is_review) ==
    CASE self = "Wrong" -> 1
      [] self = "Hard" -> 2
      [] self = "OK" -> 3
      [] self = "Easy" -> 4

ReviewAnswer_into_i64(self, is_review) ==
    IF is_review
    THEN CASE self = "Wrong" -> 1
           [] self = "Hard" -> 2
           [] self = "OK" -> 3
           [] self = "Easy" -> 4
    ELSE CASE self = "Wrong" -> 1
           [] self = "OK" -> 2
           [] self = "Easy" -> 3
           [] self = "Hard" -> 1

\* The seven enums converted with From<i64> / Into<i64>.
EnumNames ==
    {"CardType", "CardQueue", "ModelType", "LeechAction", "NewOrder",
     "NewSpread", "GraveType"}

Variants(e) ==
    CASE e = "CardType" ->
            {"New", "Learning", "Review", "Relearning"}
      [] e = "CardQueue" ->
            {"UserBuried", "Buried", "Suspended", "New", "Learning", "Review", "InLearning", "Preview"}
      [] e = "ModelType" ->
            {"Standard", "Cloze"}
      [] e = "LeechAction" ->
            {"Suspend", "Mark"}
      [] e = "NewOrder" ->
            {"Random", "Due"}
      [] e = "NewSpread" ->
            {"Distribute", "Last", "First"}
      [] e = "GraveType" ->
            {"Card", "Note", "Deck"}
      [] e = "ReviewAnswer" ->
            {"Wrong", "Hard", "OK", "Easy"}

From(e, i) ==
    CASE e = "CardType" -> CardType_from(i)
      [] e = "CardQueue" -> CardQueue_from(i)
      [] e = "ModelType" -> ModelType_from(i)
      [] e = "LeechAction" -> LeechAction_from(i)
      [] e = "NewOrder" -> NewOrder_from(i)
      [] e = "NewSpread" -> NewSpread_from(i)
      [] e = "GraveType" -> GraveType_from(i)

Into(e, v) ==
    CASE e = "CardType" -> CardType_into(v)
      [] e = "CardQueue" -> CardQueue_into(v)
      [] e = "ModelType" -> ModelType_into(v)
      [] e = "LeechAction" -> LeechAction_into(v)
      [] e = "NewOrder" -> NewOrder_into(v)
      [] e = "NewSpread" -> NewSpread_into(v)
      [] e = "GraveType" -> GraveType_into(v)

Codes == (0 - MaxCode)..MaxCode

(* SpecEnum: one conversion per step.  eop records the call and its result: *)
(* op, the enum, the variant v, the integer i, the wasReviewCard flag, and  *)
(* src, the variant a round trip started from.  out is "value": the        *)
(* conversions return plain values (i64 or the enum), never a Result.       *)

EnumOp(op, e, v, i, flag, src) ==
    [tag |-> "Enum", op |-> op, enum |-> e, v |-> v, i |-> i, flag |-> flag,
     src |-> src, out |-> "value"]

\* impl From<i64>: decode any integer
Decode(e, i) ==
    /\ eop' = EnumOp("from", e, From(e, i), i, FALSE, "")
    /\ UNCHANGED <<varsDoc, varsColl, varsApkg>>

\* impl Into<i64>: encode a variant
Encode(e, v) ==
    /\ eop' = EnumOp("into", e, v, Into(e, v), FALSE, "")
    /\ UNCHANGED <<varsDoc, varsColl, varsApkg>>

\* decode the integer the last encode produced (save_all, then Collection::new)
DecodeEncoded ==
    /\ eop.tag = "Enum"
    /\ eop.op = "into"
    /\ eop' = EnumOp("roundtrip", eop.enum, From(eop.enum, eop.i), eop.i, FALSE, eop.v)
    /\ UNCHANGED <<varsDoc, varsColl, varsApkg>>

ReviewDecode(is_review, i) ==
    /\ eop' = EnumOp("rev_from", "ReviewAnswer", ReviewAnswer_from_i64(is_review, i),
                     i, is_review, "")
    /\ UNCHANGED <<varsDoc, varsColl, varsApkg>>

ReviewEncode(a, is_review) ==
    /\ eop' = EnumOp("rev_into", "ReviewAnswer", a, ReviewAnswer_into_i64(a, is_review),
                     is_review, "")
    /\ UNCHANGED <<varsDoc, varsColl, varsApkg>>

ReviewDecodeEncoded ==
    /\ eop.tag = "Enum"
    /\ eop.op = "rev_into"
    /\ eop' = EnumOp("rev_roundtrip", "ReviewAnswer",
                     ReviewAnswer_from_i64(eop.flag, eop.i), eop.i, eop.flag, eop.v)
    /\ UNCHANGED <<varsDoc, varsColl, varsApkg>>


InitEnum ==
    /\ eop = Idle
    /\ doc = Idle /\ parsed = Idle /\ emitted = Idle /\ reparsed = Idle
    /\ db = Idle /\ fresh = Idle /\ loaded = Idle /\ saved = Idle /\ reloaded = Idle
    /\ archive = Idle /\ fs = Idle /\ apkg = Idle /\ closed = Idle

NextEnum ==
    \/ \E e \in EnumNames, i \in Codes : Decode(e, i)
    \/ \E e \in EnumNames : \E v \in Variants(e) : Encode(e, v)
    \/ DecodeEncoded
    \/ \E f \in BOOLEAN, i \in Codes : ReviewDecode(f, i)
    \/ \E a \in Variants("ReviewAnswer"), f \in BOOLEAN : ReviewEncode(a, f)
    \/ ReviewDecodeEncoded

SpecEnum == InitEnum /\ [][NextEnum]_vars

-----------------------------------------------------------------------------
(* JSON values (the json crate's JsonValue).  A document text is the       *)
(* JsonText of the value it denotes, or NotJson when it is not              *)
(* syntactically JSON.  An object with literal keys is a function from key  *)
(* to value; a keyed collection (the top level of the Models, Decks and     *)
(* DeckConfigs documents) is a "map": the sequence of its entries in        *)
(* document order, each key a sequence of characters, so that               *)
(* str::parse::<i64> and i64::to_string act on the digits.                  *)

JNull == [t |-> "null"]
\* (each type keeps its payload in a field of its own, so that two values of
\* different types never compare payloads)
JBool(b) == [t |-> "bool", b |-> b]
JInt(n) == [t |-> "int", i |-> n]
JStr(s) == [t |-> "str", s |-> s]
JArr(a) == [t |-> "arr", a |-> a]
JObj(f) == [t |-> "obj", o |-> f]
JMap(es) == [t |-> "map", m |-> es]
\* a number with a fraction, in thousandths (1500 is 1.5); a whole number is a JInt
JFloat(m) == [t |-> "float", f |-> m]
\* a string whose characters the code reads (a did given as a decimal string)
JChars(cs) == [t |-> "str", cs |-> cs]
\* the text that denotes the JSON value j, and a text that denotes none
JsonText(j) == [t |-> "json", j |-> j]
NotJson == [t |-> "notjson"]

is_object(j) == j.t \in {"obj", "map"}
is_array(j) == j.t = "arr"
is_i64(j) == j.t = "int"
is_str(j) == j.t = "str"
is_bool(j) == j.t = "bool"

is_number(j) == j.t \in {"int", "float"}

\* as_f64() of a number, in thousandths, and the JSON number of an f64
as_f64(j) == IF j.t = "int" THEN j.i * 1000 ELSE j.f
f64_to_json(m) == IF m % 1000 = 0 THEN JInt(m \div 1000) ELSE JFloat(m)

\* the payload of as_i64() / as_str() / as_bool() when it is Some
as_i64(j) == j.i
as_str(j) == j.s
as_bool(j) == j.b

\* json[key]: Null when json is no object or lacks the key
Get(j, key) ==
    IF j.t = "obj" /\ key \in DOMAIN j.o THEN j.o[key] ELSE JNull

\* json.members(): empty for a non-array
members(j) == IF j.t = "arr" THEN j.a ELSE <<>>

\* json.entries(): empty for a non-object
entries(j) == IF j.t = "map" THEN j.m ELSE <<>>

\* members().collect()[i], Null outside the vector (the code checks len first)
Elem(a, i) == IF i \in DOMAIN a THEN a[i] ELSE JNull

\* JsonValue::insert on a keyed collection: an existing key keeps its place
\* and gets the new value, a new key is appended
MapInsert(j, key, val) ==
    LET at == IF \E k \in DOMAIN j.m : j.m[k].k = key
              THEN CHOOSE k \in DOMAIN j.m : j.m[k].k = key ELSE 0
    IN  IF at = 0
        THEN JMap(Append(j.m, [k |-> key, v |-> val]))
        ELSE JMap([j.m EXCEPT ![at] = [k |-> key, v |-> val]])

\* json::parse(text)
json_parse(text) ==
    IF text.t = "json" THEN Ok(text.j) ELSE Err("Syntax", "json::parse")

\* json::stringify(value): the text denoting value
json_stringify(j) == JsonText(j)

WrongType(m) == Err("WrongType", m)

\* the loop returning the entries before the first failed one
Collect_Mutant(rs) ==
    LET bad == {k \in DOMAIN rs : ~IsOk(rs[k])}
        n == IF bad = {} THEN Len(rs) ELSE (CHOOSE k \in bad : \A j \in bad : k <= j) - 1
    IN  Ok([k \in 1..n |-> rs[k].val])

\* a loop `for x in xs { v.push(f(x)?) }` over the results rs of f: the vector
\* of the values, or the first error (the values before it are dropped)
Collect(rs) ==
    LET bad == {k \in DOMAIN rs : ~IsOk(rs[k])}
    IN  IF bad = {} THEN Ok([k \in DOMAIN rs |-> rs[k].val])
        ELSE rs[CHOOSE k \in bad : \A j \in bad : k <= j]

\* the first failed check of a sequence of <<condition, message>> pairs, or 0
RECURSIVE FirstFailed(_, _)
FirstFailed(checks, i) ==
    IF i > Len(checks) THEN 0
    ELSE IF ~checks[i][1] THEN i
    ELSE FirstFailed(checks, i + 1)

-----------------------------------------------------------------------------
(* Decimal keys: str::parse::<i64> and i64::to_string.                     *)

Digits == <<"0", "1", "2", "3", "4", "5", "6", "7", "8", "9">>


RECURSIVE DigitsValue(_, _)
DigitsValue(s, acc) ==
    IF s = <<>> THEN acc ELSE DigitsValue(Tail(s), acc * 10 + (CHOOSE d \in 1..10 : Digits[d] = Head(s)) - 1)

\* key.parse::<i64>(): an optional sign, then one or more digits (leading
\* zeros accepted); anything else is an error.  The bounded keys never overflow.
ParseI64(s) ==
    LET signed == s # <<>> /\ Head(s) \in {"+", "-"}
        body == IF signed THEN Tail(s) ELSE s
    IN  IF body = <<>> \/ \E k \in DOMAIN body : \A d \in 1..10 : Digits[d] # body[k]
        THEN Err("ParseInt", "invalid digit")
        ELSE Ok(IF signed /\ Head(s) = "-"
                THEN 0 - DigitsValue(body, 0)
                ELSE DigitsValue(body, 0))

RECURSIVE NatToString(_)
NatToString(n) ==
    IF n < 10 THEN <<Digits[n + 1]>>
    ELSE Append(NatToString(n \div 10), Digits[(n % 10) + 1])

\* epoch.to_string()
to_string(n) == IF n < 0 THEN <<"-">> \o NatToString(0 - n) ELSE NatToString(n)

\* X::to_json_all: each (key, value) pair is inserted under key.to_string()
RECURSIVE to_json_all_from(_, _, _)
to_json_all_from(pairs, i, json) ==
    IF i > Len(pairs) THEN json
    ELSE to_json_all_from(pairs, i + 1, MapInsert(json, to_string(pairs[i][1]), pairs[i][2]))

-----------------------------------------------------------------------------
(* Deck (deck.rs 726-999).                                                 *)

\* Deck::new: parse a single deck JSON
Deck_new(epoch, json) ==
    LET new_today == members(Get(json, "newToday"))
        learned_today == members(Get(json, "lrnToday"))
        review_today == members(Get(json, "lrnToday"))
        checks == <<
          <<json.t = "obj", "Deck is not an object">>,
          <<is_str(Get(json, "name")), "Deck name field missing or incorect">>,
          <<is_i64(Get(json, "usn")), "Deck usn field missing or incorect">>,
          <<is_bool(Get(json, "collapsed")), "Deck collapsed field missing or incorect">>,
          <<is_bool(Get(json, "browserCollapsed")),
            "Deck browserCollapsed field missing or incorect">>,
          <<is_i64(Get(json, "dyn")), "Deck dyn field missing or incorect">>,
          <<is_i64(Get(json, "conf")), "Deck conf field missing or incorect">>,
          <<is_i64(Get(json, "id")), "Deck id field missing or incorect">>,
          <<is_i64(Get(json, "mod")), "Deck mod field missing or incorect">>,
          <<is_str(Get(json, "desc")), "Deck desc field missing or incorect">>,
          <<is_array(Get(json, "newToday")), "Deck newToday field missing or incorect">>,
          <<Len(new_today) = 2, "Deck newToday array wrong length">>,
          <<is_i64(Elem(new_today, 1)), "Deck newToday array element 0 not integer">>,
          <<is_i64(Elem(new_today, 2)), "Deck newToday array element 1 not integer">>,
          <<is_array(Get(json, "lrnToday")), "Deck lrnToday field missing or incorect">>,
          <<Len(learned_today) = 2, "Deck lrnToday array wrong length">>,
          <<is_i64(Elem(learned_today, 1)), "Deck lrnToday array element 0 not integer">>,
          <<is_i64(Elem(learned_today, 2)), "Deck lrnToday array element 1 not integer">>,
          <<is_array(Get(json, "lrnToday")), "Deck revToday field missing or incorect">>,
          <<Len(review_today) = 2, "Deck revToday array wrong length">>,
          <<is_i64(Elem(review_today, 1)), "Deck revToday array element 0 not integer">>,
          <<is_i64(Elem(learned_today, 2)), "Deck revToday array element 1 not integer">>
        >>
        bad == FirstFailed(checks, 1)
    IN  IF bad # 0 THEN WrongType(checks[bad][2])
        ELSE Ok([
          epoch |-> epoch,
          name |-> as_str(Get(json, "name")),
          extended_review_limit |->
              IF is_i64(Get(json, "extended_rev")) THEN as_i64(Get(json, "extended_rev")) ELSE 10,
          usn |-> as_i64(Get(json, "usn")),
          collapsed |-> as_bool(Get(json, "collapsed")),
          browser_collapsed |-> as_bool(Get(json, "browserCollapsed")),
          dynamic |-> as_i64(Get(json, "dyn")),
          extended_new_limit |->
              IF is_i64(Get(json, "extendNew")) THEN as_i64(Get(json, "extendNew")) ELSE 10,
          config_id |-> as_i64(Get(json, "conf")),
          id |-> as_i64(Get(json, "id")),
          modification_time |-> as_i64(Get(json, "mod")),
          description |-> as_str(Get(json, "desc")),
          new_today |-> <<as_i64(new_today[1]), as_i64(new_today[2])>>,
          learned_today |-> <<as_i64(learned_today[1]), as_i64(learned_today[2])>>,
          reviewed_today |-> <<as_i64(review_today[1]), as_i64(learned_today[2])>> ])

\* Deck::parse with each deck's new limit taken from its review limit
Deck_parse_Mutant(data) ==
    LET p == json_parse(data)
        swap(r) == IF IsOk(r)
                   THEN Ok([k \in DOMAIN r.val |->
                              [r.val[k] EXCEPT !.extended_new_limit =
                                                  r.val[k].extended_review_limit]])
                   ELSE r
    IN  IF ~IsOk(p) THEN p
        ELSE IF ~is_object(p.val)
        THEN WrongType("Decks are not an object at top level")
        ELSE LET es == entries(p.val)
             IN  swap(Collect([k \in DOMAIN es |->
                    LET deck_epoch == ParseI64(es[k].k)
                    IN  IF ~IsOk(deck_epoch) THEN WrongType("Deck does not have proper id")
                        ELSE Deck_new(deck_epoch.val, es[k].v)]))

\* Deck::parse: the totality of the JSON into all the decks
Deck_parse(data) ==
    LET p == json_parse(data)
    IN  IF ~IsOk(p) THEN p
        ELSE IF ~is_object(p.val)
        THEN WrongType("Decks are not an object at top level")
        ELSE LET es == entries(p.val)
             IN  Collect([k \in DOMAIN es |->
                    LET deck_epoch == ParseI64(es[k].k)
                    IN  IF ~IsOk(deck_epoch) THEN WrongType("Deck does not have proper id")
                        ELSE Deck_new(deck_epoch.val, es[k].v)])

Deck_to_json(self) ==
    <<self.epoch,
      JObj([name |-> JStr(self.name),
            extendRev |-> JInt(self.extended_review_limit),
            usn |-> JInt(self.usn),
            collapsed |-> JBool(self.collapsed),
            browserCollapsed |-> JBool(self.browser_collapsed),
            newToday |-> JArr(<<JInt(self.new_today[1]), JInt(self.new_today[2])>>),
            revToday |-> JArr(<<JInt(self.reviewed_today[1]), JInt(self.reviewed_today[2])>>),
            lrnToday |-> JArr(<<JInt(self.learned_today[1]), JInt(self.learned_today[2])>>),
            dyn |-> JInt(self.dynamic),
            extendNew |-> JInt(self.extended_review_limit),
            conf |-> JInt(self.config_id),
            id |-> JInt(self.id),
            mod |-> JInt(self.modification_time),
            desc |-> JStr(self.description)])>>

Deck_to_json_all(v) ==
    to_json_all_from([k \in DOMAIN v |-> Deck_to_json(v[k])], 1, JMap(<<>>))

-----------------------------------------------------------------------------
(* Request, Template, Model (deck.rs 179-661).                             *)

\* Request::new: the three members of a requirement, by position
Request_new(json) ==
    LET it == members(json)
        l == Elem(it, 3)
        checks == <<
          <<Len(it) >= 1, "Request array too small">>,
          <<is_i64(Elem(it, 1)), "Request array has improrper ordinal">>,
          <<Len(it) >= 2, "Request array too small">>,
          <<is_str(Elem(it, 2)), "Request array has improper string">>,
          <<Len(it) >= 3, "Request array too small">>,
          <<is_array(l), "Request array list not an array">>,
          <<\A k \in DOMAIN members(l) : is_i64(members(l)[k]),
            "Request array list has non-integer">>
        >>
        bad == FirstFailed(checks, 1)
    IN  IF bad # 0 THEN WrongType(checks[bad][2])
        ELSE Ok([ordinal |-> as_i64(it[1]), string |-> as_str(it[2]),
                 list |-> [k \in DOMAIN members(l) |-> as_i64(members(l)[k])]])

Request_to_json(self) ==
    JArr(<<JInt(self.ordinal), JStr(self.string),
           JArr([k \in DOMAIN self.list |-> JInt(self.list[k])])>>)

Template_new(json) ==
    LET checks == <<
          <<json.t = "obj", "Template is not object">>,
          <<is_str(Get(json, "afmt")), "Template afmt is missing or incorrect">>,
          <<is_str(Get(json, "bafmt")), "Template bafmt is missing or incorrect">>,
          <<is_str(Get(json, "bqfmt")), "Template bqfmt is missing or incorrect">>,
          <<is_str(Get(json, "qfmt")), "Template qfmt is missing or incorrect">>,
          <<is_str(Get(json, "name")), "Template qfmt is missing or incorrect">>,
          <<is_i64(Get(json, "ord")), "Template ord is missing or incorrect">>
        >>
        bad == FirstFailed(checks, 1)
    IN  IF bad # 0 THEN WrongType(checks[bad][2])
        ELSE Ok([answer_format |-> as_str(Get(json, "afmt")),
                 back_format |-> as_str(Get(json, "bafmt")),
                 browser_format |-> as_str(Get(json, "bqfmt")),
                 deck_override |-> IF is_i64(Get(json, "did"))
                                   THEN Some(as_i64(Get(json, "did"))) ELSE None,
                 name |-> as_str(Get(json, "name")),
                 ordinal |-> as_i64(Get(json, "ord")),
                 question_format |-> as_str(Get(json, "qfmt"))])

Template_into_json(self) ==
    JObj((IF self.deck_override.some THEN [did |-> JInt(self.deck_override.x)] ELSE <<>>)
         @@ [afmt |-> JStr(self.answer_format),
             bafmt |-> JStr(self.back_format),
             bqfmt |-> JStr(self.browser_format),
             name |-> JStr(self.name),
             ord |-> JInt(self.ordinal),
             qfmt |-> JStr(self.question_format)])

\* Model::new: parse a model from a JSON object.  The did may be a number or
\* a decimal string; flds is never read, so fields stays empty.
Model_new(epoch, json_model) ==
    LET did == Get(json_model, "did")
        did_str == IF is_str(did) THEN ParseI64(did.cs) ELSE Ok(0)
        req == Get(json_model, "req")
        req_vec == IF is_array(req)
                   THEN Collect([k \in DOMAIN members(req) |-> Request_new(members(req)[k])])
                   ELSE Ok(<<>>)
        templates == Get(json_model, "tmpls")
        tmpl_vec == Collect([k \in DOMAIN members(templates) |->
                                Template_new(members(templates)[k])])
        checks == <<
          <<json_model.t = "obj", "Model is not an object">>,
          <<is_str(Get(json_model, "css")), "CSS field missing or incorrect">>,
          <<IsOk(did_str), "Deck ID field missing or incorrect">>,
          <<is_i64(Get(json_model, "id")), "ID field missing or incorrect">>,
          <<is_str(Get(json_model, "latexPre")), "latexPre field missing or incorrect">>,
          <<is_str(Get(json_model, "latexPost")), "latexPost field missing or incorrect">>,
          <<is_i64(Get(json_model, "mod")), "mod field missing or incorrect">>,
          <<is_str(Get(json_model, "name")), "name field missing or incorrect">>,
          <<is_i64(Get(json_model, "sortf")), "sortf field missing or incorrect">>,
          <<is_i64(Get(json_model, "type")), "type field missing or incorrect">>,
          <<is_i64(Get(json_model, "usn")), "usn field missing or incorrect">>
        >>
        bad == FirstFailed(checks, 1)
    IN  IF bad # 0 THEN WrongType(checks[bad][2])
        ELSE IF ~IsOk(req_vec) THEN req_vec
        ELSE IF ~is_array(templates) THEN WrongType("tmpls is not array")
        ELSE IF ~IsOk(tmpl_vec) THEN tmpl_vec
        ELSE Ok([
          epoch |-> epoch,
          id |-> as_i64(Get(json_model, "id")),
          css |-> as_str(Get(json_model, "css")),
          deck_id |-> IF is_i64(did) THEN Some(as_i64(did))
                      ELSE IF is_str(did) THEN Some(did_str.val) ELSE None,
          fields |-> <<>>,
          latex_post |-> as_str(Get(json_model, "latexPost")),
          latex_pre |-> as_str(Get(json_model, "latexPre")),
          modification_time |-> as_i64(Get(json_model, "mod")),
          name |-> as_str(Get(json_model, "name")),
          sort_field |-> as_i64(Get(json_model, "sortf")),
          templates |-> tmpl_vec.val,
          model_type |-> ModelType_from(as_i64(Get(json_model, "type"))),
          usn |-> as_i64(Get(json_model, "usn")),
          req |-> IF is_array(req) THEN Some(req_vec.val) ELSE None ])

\* Model::parse: all models from a string
Model_parse(data) ==
    LET p == json_parse(data)
    IN  IF ~IsOk(p) THEN p
        ELSE IF ~is_object(p.val) THEN WrongType("Models are not in an object")
        ELSE LET es == entries(p.val)
             IN  Collect([k \in DOMAIN es |->
                    LET epoch == ParseI64(es[k].k)
                    IN  IF ~IsOk(epoch) THEN WrongType("Model does not have proper id")
                        ELSE Model_new(epoch.val, es[k].v)])

\* Model::to_json with the req key inserted whether or not req is Some
Model_to_json_Mutant(self) ==
    <<self.epoch,
      JObj([id |-> JInt(self.id),
            name |-> JStr(self.name),
            req |-> JArr(IF self.req.some
                         THEN [k \in DOMAIN self.req.x |-> Request_to_json(self.req.x[k])]
                         ELSE <<>>)])>>

\* Model::to_json: flds is built from self.fields
Model_to_json(self) ==
    <<self.epoch,
      JObj((IF self.deck_id.some THEN [did |-> JInt(self.deck_id.x)] ELSE <<>>)
           @@ (IF self.req.some
               THEN [req |-> JArr([k \in DOMAIN self.req.x |-> Request_to_json(self.req.x[k])])]
               ELSE <<>>)
           @@ [css |-> JStr(self.css),
               id |-> JInt(self.id),
               latexPost |-> JStr(self.latex_post),
               latexPre |-> JStr(self.latex_pre),
               mod |-> JInt(self.modification_time),
               name |-> JStr(self.name),
               sortf |-> JInt(self.sort_field),
               tags |-> JArr(<<>>),
               usn |-> JInt(self.usn),
               vers |-> JArr(<<>>),
               type |-> JInt(ModelType_into(self.model_type)),
               flds |-> JArr([k \in DOMAIN self.fields |->
                          JObj([font |-> JStr(self.fields[k].font),
                                name |-> JStr(self.fields[k].name),
                                ord |-> JInt(self.fields[k].ordinal),
                                rtl |-> JBool(self.fields[k].right_to_left),
                                size |-> JInt(self.fields[k].font_size),
                                sticky |-> JBool(self.fields[k].sticky)])]),
               tmpls |-> JArr([k \in DOMAIN self.templates |->
                                Template_into_json(self.templates[k])])])>>

\* Model::to_json_all with each model inserted under its id field
Model_to_json_all_Mutant(v) ==
    to_json_all_from([k \in DOMAIN v |-> <<v[k].id, Model_to_json(v[k])[2]>>], 1, JMap(<<>>))

Model_to_json_all(v) ==
    to_json_all_from([k \in DOMAIN v |-> Model_to_json(v[k])], 1, JMap(<<>>))

-----------------------------------------------------------------------------
(* DeckConfig and its sub-policies (deck.rs 1026-1539).                    *)

LapsedConfig_new(json) ==
    LET delays == Get(json, "delays")
        checks == <<
          <<json.t = "obj", "lapse is not an object">>,
          <<is_i64(Get(json, "leechAction")), "leech leechAction field missing or incorrect">>,
          <<is_i64(Get(json, "leechFails")), "leech leechFails field missing or incorrect">>,
          <<is_i64(Get(json, "minInt")), "leech minInt field missing or incorrect">>,
          <<is_number(Get(json, "mult")), "leech mult field missing or incorrect">>,
          <<is_array(delays), "leech delays field missing or incorrect">>,
          <<\A k \in DOMAIN members(delays) : is_number(members(delays)[k]),
            "leech delays array contains non number">>
        >>
        bad == FirstFailed(checks, 1)
    IN  IF bad # 0 THEN WrongType(checks[bad][2])
        ELSE Ok([delays |-> [k \in DOMAIN members(delays) |-> as_f64(members(delays)[k])],
                 leech_action |-> LeechAction_from(as_i64(Get(json, "leechAction"))),
                 leech_fails |-> as_i64(Get(json, "leechFails")),
                 min_interval |-> as_i64(Get(json, "minInt")),
                 mult |-> as_f64(Get(json, "mult"))])

LapsedConfig_to_json(self) ==
    JObj([leechFails |-> JInt(self.leech_fails),
          minInt |-> JInt(self.min_interval),
          mult |-> f64_to_json(self.mult),
          leechAction |-> JInt(LeechAction_into(self.leech_action)),
          delays |-> JArr([k \in DOMAIN self.delays |-> f64_to_json(self.delays[k])])])

\* NewConfig::new: separate is never read and stays 0
NewConfig_new(json) ==
    LET delays == Get(json, "delays")
        ints == Get(json, "ints")
        checks == <<
          <<json.t = "obj", "new is not object">>,
          <<is_bool(Get(json, "bury")), "new bury field missing or incorrect">>,
          <<is_i64(Get(json, "initialFactor")), "new initialFactor field missing or incorrect">>,
          <<is_i64(Get(json, "order")), "new order field missing or incorrect">>,
          <<is_i64(Get(json, "perDay")), "new perDay field missing or incorrect">>,
          <<is_array(delays), "new delays field missing or incorrect">>,
          <<\A k \in DOMAIN members(delays) : is_number(members(delays)[k]),
            "new delay array contains non number">>,
          <<is_array(ints), "new ints field missing or incorrect">>,
          <<\A k \in DOMAIN members(ints) : is_i64(members(ints)[k]),
            "new ints array contains non number">>
        >>
        bad == FirstFailed(checks, 1)
    IN  IF bad # 0 THEN WrongType(checks[bad][2])
        ELSE Ok([bury |-> as_bool(Get(json, "bury")),
                 delays |-> [k \in DOMAIN members(delays) |-> as_f64(members(delays)[k])],
                 initial_factor |-> as_i64(Get(json, "initialFactor")),
                 intervals |-> [k \in DOMAIN members(ints) |-> as_i64(members(ints)[k])],
                 order |-> NewOrder_from(as_i64(Get(json, "order"))),
                 per_day |-> as_i64(Get(json, "perDay")),
                 separate |-> 0])

NewConfig_to_json(self) ==
    JObj([bury |-> JBool(self.bury),
          initialFactor |-> JInt(self.initial_factor),
          perDay |-> JInt(self.per_day),
          separate |-> JInt(self.separate),
          delays |-> JArr([k \in DOMAIN self.delays |-> f64_to_json(self.delays[k])]),
          order |-> JInt(NewOrder_into(self.order)),
          ints |-> JArr([k \in DOMAIN self.intervals |-> JInt(self.intervals[k])])])

ReviewConfig_new(json) ==
    LET checks == <<
          <<json.t = "obj", "rev is not an object">>,
          <<is_bool(Get(json, "bury")), "rev bury field missing or incorrect">>,
          <<is_number(Get(json, "ease4")), "rev ease4 field missing or incorrect">>,
          <<is_number(Get(json, "ivlFct")), "rev ivlFct field missing or incorrect">>,
          <<is_number(Get(json, "maxIvl")), "rev maxIvl field missing or incorrect">>,
          <<is_i64(Get(json, "perDay")), "rev perDay field missing or incorrect">>
        >>
        bad == FirstFailed(checks, 1)
    IN  IF bad # 0 THEN WrongType(checks[bad][2])
        ELSE Ok([bury |-> as_bool(Get(json, "bury")),
                 ease4 |-> as_f64(Get(json, "ease4")),
                 fuzz |-> IF is_number(Get(json, "fuzz"))
                          THEN Some(as_f64(Get(json, "fuzz"))) ELSE None,
                 interval_factor |-> as_f64(Get(json, "ivlFct")),
                 max_interval |-> as_f64(Get(json, "maxIvl")),
                 per_day |-> as_i64(Get(json, "perDay"))])

ReviewConfig_to_json(self) ==
    JObj((IF self.fuzz.some THEN [fuzz |-> f64_to_json(self.fuzz.x)] ELSE <<>>)
         @@ [bury |-> JBool(self.bury),
             ease4 |-> f64_to_json(self.ease4),
             ivlFct |-> f64_to_json(self.interval_factor),
             maxIvl |-> f64_to_json(self.max_interval),
             perDay |-> JInt(self.per_day)])

DeckConfig_new(id, json) ==
    LET lapse == LapsedConfig_new(Get(json, "lapse"))
        new == NewConfig_new(Get(json, "new"))
        review == ReviewConfig_new(Get(json, "rev"))
        checks == <<
          <<json.t = "obj", "Deck config value is not an object">>,
          <<is_bool(Get(json, "autoplay")),
            "Deck configuration autoplay field missing or incorrect">>,
          <<is_bool(Get(json, "dyn")), "Deck configuration dyn field missing or incorrect">>,
          <<is_i64(Get(json, "maxTaken")),
            "Deck configuration maxTaken field missing or incorrect">>,
          <<is_i64(Get(json, "mod")), "Deck configuration mod field missing or incorrect">>,
          <<is_str(Get(json, "name")), "Deck configuration name field missing or incorrect">>,
          <<is_bool(Get(json, "replayq")),
            "Deck configuration replayq field missing or incorrect">>,
          <<is_i64(Get(json, "timer")), "Deck configuration timer field missing or incorrect">>,
          <<is_i64(Get(json, "usn")), "Deck configuration usn field missing or incorrect">>
        >>
        bad == FirstFailed(checks, 1)
    IN  IF bad # 0 THEN WrongType(checks[bad][2])
        ELSE IF ~IsOk(lapse) THEN lapse
        ELSE IF ~IsOk(new) THEN new
        ELSE IF ~IsOk(review) THEN review
        ELSE Ok([id |-> id,
                 autoplay |-> as_bool(Get(json, "autoplay")),
                 dynamic |-> as_bool(Get(json, "dyn")),
                 lapse |-> Some(lapse.val),
                 max_taken |-> as_i64(Get(json, "maxTaken")),
                 modification_time |-> as_i64(Get(json, "mod")),
                 name |-> as_str(Get(json, "name")),
                 new |-> Some(new.val),
                 replay_audio |-> as_bool(Get(json, "replayq")),
                 review |-> Some(review.val),
                 timer |-> as_i64(Get(json, "timer")),
                 usn |-> as_i64(Get(json, "usn"))])

\* DeckConfig::parse taking a configuration without the lapse key, its
\* lapse policy left None
DeckConfig_parse_Mutant(data) ==
    LET p == json_parse(data)
        lapse == JObj([leechAction |-> JInt(0), leechFails |-> JInt(8), minInt |-> JInt(1),
                       mult |-> JInt(0), delays |-> JArr(<<>>)])
        absent(v) == v.t = "obj" /\ "lapse" \notin DOMAIN v.o
        unset(v, r) == IF absent(v) /\ IsOk(r) THEN Ok([r.val EXCEPT !.lapse = None]) ELSE r
        new(id, v) == unset(v, DeckConfig_new(id, IF absent(v) THEN JObj(("lapse" :> lapse) @@ v.o)
                                                  ELSE v))
    IN  IF ~IsOk(p) THEN p
        ELSE IF ~is_object(p.val) THEN WrongType("Deck Options is not a top level object")
        ELSE LET es == entries(p.val)
             IN  Collect([k \in DOMAIN es |->
                    LET conf_id == ParseI64(es[k].k)
                    IN  IF ~IsOk(conf_id) THEN WrongType("Deck config key is not an id")
                        ELSE new(conf_id.val, es[k].v)])

\* DeckConfig::parse: the totality of the JSON into all the deck configs
DeckConfig_parse(data) ==
    LET p == json_parse(data)
    IN  IF ~IsOk(p) THEN p
        ELSE IF ~is_object(p.val) THEN WrongType("Deck Options is not a top level object")
        ELSE LET es == entries(p.val)
             IN  Collect([k \in DOMAIN es |->
                    LET conf_id == ParseI64(es[k].k)
                    IN  IF ~IsOk(conf_id) THEN WrongType("Deck config key is not an id")
                        ELSE DeckConfig_new(conf_id.val, es[k].v)])

\* DeckConfig::to_json: the three sub-policies are unwrapped
DeckConfig_to_json(self) ==
    <<self.id,
      JObj([autoplay |-> JBool(self.autoplay),
            dyn |-> JBool(self.dynamic),
            id |-> JInt(self.id),
            maxTaken |-> JInt(self.max_taken),
            mod |-> JInt(self.modification_time),
            name |-> JStr(self.name),
            replayq |-> JBool(self.replay_audio),
            timer |-> JInt(self.timer),
            usn |-> JInt(self.usn),
            rev |-> ReviewConfig_to_json(self.review.x),
            new |-> NewConfig_to_json(self.new.x),
            lapse |-> LapsedConfig_to_json(self.lapse.x)])>>

DeckConfig_to_json_all(v) ==
    to_json_all_from([k \in DOMAIN v |-> DeckConfig_to_json(v[k])], 1, JMap(<<>>))

-----------------------------------------------------------------------------
(* SyncConfig (deck.rs 1569-1804).                                         *)

\* Vec<String>::join(sep)
RECURSIVE Join(_, _)
Join(v, sep) ==
    IF v = <<>> THEN ""
    ELSE IF Len(v) = 1 THEN v[1]
    ELSE v[1] \o sep \o Join(Tail(v), sep)

\* SyncConfig::new
SyncConfig_new(data) ==
    LET p == json_parse(data)
        json == p.val
        active == Get(json, "activeDecks")
        cols == Get(json, "activeCols")
        checks == <<
          <<json.t = "obj", "SyncConfig is not an object">>,
          <<is_i64(Get(json, "curDeck")), "SyncConfig curDeck field is missing or incorrect">>,
          <<is_i64(Get(json, "newSpread")),
            "SyncConfig newSpread field is missing or incorrect">>,
          <<is_i64(Get(json, "collapseTime")),
            "SyncConfig collapseTime field is missing or incorrect">>,
          <<is_i64(Get(json, "timeLim")), "SyncConfig timeLim field is missing or incorrect">>,
          <<is_bool(Get(json, "estTimes")),
            "SyncConfig estTimes field is missing or incorrect">>,
          <<is_bool(Get(json, "dueCounts")),
            "SyncConfig dueCounts field is missing or incorrect">>,
          <<is_i64(Get(json, "curModel")),
            "SyncConfig curModel field is missing or incorrect">>,
          <<is_i64(Get(json, "nextPos")), "SyncConfig nextPos field is missing or incorrect">>,
          <<is_bool(Get(json, "sortBackwards")),
            "SyncConfig sortBackwards field is missing or incorrect">>,
          <<is_bool(Get(json, "addToCur")),
            "SyncConfig addToCur field is missing or incorrect">>,
          <<is_bool(Get(json, "dayLearnFirst")),
            "SyncConfig dayLearnFirst field is missing or incorrect">>,
          <<is_array(active), "SyncConfig activeDecks field is missing or incorrect">>,
          <<\A k \in DOMAIN members(active) : is_i64(members(active)[k]),
            "SyncConfig activeDecks contains non number">>,
          <<is_array(cols) => \A k \in DOMAIN members(cols) : is_str(members(cols)[k]),
            "SyncConfig activeCols contains non string">>,
          <<is_array(cols) \/ cols = JNull, "SyncConfig activeCols is incorrect">>
        >>
        bad == FirstFailed(checks, 1)
    IN  IF ~IsOk(p) THEN p
        ELSE IF bad # 0 THEN WrongType(checks[bad][2])
        ELSE Ok([
          current_deck |-> as_i64(Get(json, "curDeck")),
          active_decks |-> [k \in DOMAIN members(active) |-> as_i64(members(active)[k])],
          new_spread |-> NewSpread_from(as_i64(Get(json, "newSpread"))),
          collapse_time |-> as_i64(Get(json, "collapseTime")),
          time_limit |-> as_i64(Get(json, "timeLim")),
          estimated_times |-> as_bool(Get(json, "estTimes")),
          due_counts |-> as_bool(Get(json, "dueCounts")),
          current_model |-> as_i64(Get(json, "curModel")),
          next_pos |-> as_i64(Get(json, "nextPos")),
          sort_type |-> IF is_str(Get(json, "sortType"))
                        THEN Some(as_str(Get(json, "sortType"))) ELSE None,
          sort_backwards |-> as_bool(Get(json, "sortBackwards")),
          add_to_current |-> as_bool(Get(json, "addToCur")),
          day_learn_first |-> as_bool(Get(json, "dayLearnFirst")),
          new_bury |-> IF is_bool(Get(json, "newBury"))
                       THEN Some(as_bool(Get(json, "newBury"))) ELSE None,
          last_unburied |-> IF is_i64(Get(json, "lastUnburied"))
                            THEN Some(as_i64(Get(json, "lastUnburied"))) ELSE None,
          active_cols |-> IF is_array(cols)
                          THEN [k \in DOMAIN members(cols) |-> as_str(members(cols)[k])]
                          ELSE <<"noteFld", "template", "cardDue", "deck">> ])

\* SyncConfig::to_json
SyncConfig_to_json(self) ==
    JObj((IF self.sort_type.some THEN [sortType |-> JStr(self.sort_type.x)] ELSE <<>>)
         @@ (IF self.new_bury.some THEN [newBury |-> JBool(self.new_bury.x)] ELSE <<>>)
         @@ (IF self.last_unburied.some
             THEN [lastUnburied |-> JInt(self.last_unburied.x)] ELSE <<>>)
         @@ [curDeck |-> JInt(self.current_deck),
             collapseTime |-> JInt(self.collapse_time),
             timeLim |-> JInt(self.time_limit),
             estTimes |-> JBool(self.estimated_times),
             dueCounts |-> JBool(self.due_counts),
             curModel |-> JInt(self.current_model),
             nextPos |-> JInt(self.next_pos),
             sortBackwards |-> JBool(self.sort_backwards),
             addToCur |-> JBool(self.add_to_current),
             dayLearnFirst |-> JBool(self.day_learn_first),
             activeDecks |-> JArr([k \in DOMAIN self.active_decks |->
                                    JInt(self.active_decks[k])]),
             activeCols |-> JStr(Join(self.active_cols, " "))])

-----------------------------------------------------------------------------
(* SpecDoc: a document of the col row (Decks, DeckConfigs, SyncConfig or   *)
(* Models) is parsed, serialized as Collection::save serializes it, and    *)
(* parsed again.                                                           *)

\* sequences over S of length 0..n
SeqsUpTo(S, n) == UNION {[1..k -> S] : k \in 0..n}

\* the keys of an object, removed or replaced
Without(f, key) == [k \in DOMAIN f \ {key} |-> f[k]]
With(f, key, val) == (key :> val) @@ f

Pair(a, b) == JArr(<<JInt(a), JInt(b)>>)

WrongValue(j) == IF j.t = "str" THEN JInt(1) ELSE JStr("x")

\* the keys of keyed collections: canonical decimals, decimals that
\* str::parse::<i64> accepts, and keys it rejects
Keys ==
    [good |-> {<<"1">>, <<"2">>, <<"1", "0">>, <<"-", "3">>},
     loose |-> {<<"0", "1">>, <<"+", "1">>},
     bad |-> {<<>>, <<"a">>, <<"1", "a">>, <<"-">>}]

\* documents with up to MaxEntries entries are parsed
MaxEntries == 2

Entry(key, val) == [k |-> key, v |-> val]

\* documents of distinct keys over the given keys and values
KeyedDocs(keys, vals) ==
    {JsonText(JMap(es)) : es \in {x \in SeqsUpTo({Entry(k, v) : k \in keys, v \in vals}, MaxEntries) :
                          \A i, j \in DOMAIN x : i # j => x[i].k # x[j].k}}

NonObjectDocs == {NotJson} \cup {JsonText(j) : j \in {JNull, JArr(<<>>), JStr("x"), JInt(1)}}

BaseDeck ==
    [name |-> JStr("Default"), usn |-> JInt(0), collapsed |-> JBool(FALSE),
     browserCollapsed |-> JBool(TRUE), dyn |-> JInt(0), conf |-> JInt(1),
     id |-> JInt(1), mod |-> JInt(5), desc |-> JStr(""),
     newToday |-> Pair(0, 0), lrnToday |-> Pair(0, 0), revToday |-> Pair(0, 0)]

DeckDocs ==
    LET \* the optional limits: no key, or a key with a value
        limits ==
            {<<>>, [extended_rev |-> JInt(5)], [extendRev |-> JInt(5)], [extendNew |-> JInt(7)],
             [extendNew |-> JInt(10)], [extended_rev |-> JInt(5), extendNew |-> JInt(7)],
             [extended_rev |-> JInt(5), extendNew |-> JInt(5)],
             [extendRev |-> JInt(8), extendNew |-> JInt(8)]}
        valid ==
            {JObj(lim @@ [BaseDeck EXCEPT !.newToday = nt, !.lrnToday = lt, !.revToday = rt]) :
                lim \in limits, nt \in {Pair(0, 0), Pair(1, 2)},
                lt \in {Pair(0, 0), Pair(3, 4)}, rt \in {Pair(0, 0), Pair(3, 4), Pair(5, 6)}}
        \* decks with one field missing, of the wrong type, or a malformed pair
        invalid ==
            {JObj(Without(BaseDeck, k)) : k \in DOMAIN BaseDeck}
            \cup {JObj(With(BaseDeck, k, WrongValue(BaseDeck[k]))) : k \in DOMAIN BaseDeck}
            \cup {JObj(With(BaseDeck, k, a)) :
                    k \in {"newToday", "lrnToday", "revToday"},
                    a \in {JArr(<<JInt(1)>>), JArr(<<JInt(1), JInt(2), JInt(3)>>),
                           JArr(<<JStr("x"), JInt(2)>>), JArr(<<JInt(1), JNull>>)}}
        some ==
            {JObj(BaseDeck),
             JObj([extended_rev |-> JInt(5), extendNew |-> JInt(7)]
                  @@ [BaseDeck EXCEPT !.name = JStr("Other"), !.id = JInt(2),
                                      !.revToday = Pair(5, 6), !.lrnToday = Pair(3, 4)]),
             JObj(Without(BaseDeck, "name"))}
    IN  NonObjectDocs
        \cup {JsonText(JMap(<<Entry(<<"1">>, d)>>)) : d \in valid \cup invalid}
        \cup {JsonText(JMap(<<Entry(k, JObj(BaseDeck))>>)) : k \in Keys.bad}
        \cup KeyedDocs(Keys.good \cup Keys.loose \cup {<<"a">>}, some)

\* activeDecks arrays of up to MaxActive numbers are parsed
MaxActive == 2

BaseSync ==
    [curDeck |-> JInt(1), newSpread |-> JInt(0), collapseTime |-> JInt(1200),
     timeLim |-> JInt(0), estTimes |-> JBool(TRUE), dueCounts |-> JBool(TRUE),
     curModel |-> JInt(2), nextPos |-> JInt(1), sortBackwards |-> JBool(FALSE),
     addToCur |-> JBool(TRUE), dayLearnFirst |-> JBool(FALSE),
     activeDecks |-> JArr(<<JInt(1)>>)]

SyncDocs ==
    LET optional ==
            {o1 @@ o2 @@ o3 :
                o1 \in {<<>>, [sortType |-> JStr("noteFld")]},
                o2 \in {<<>>, [newBury |-> JBool(TRUE)]},
                o3 \in {<<>>, [lastUnburied |-> JInt(3)]}}
        cols ==
            {<<>>, [activeCols |-> JNull], [activeCols |-> JArr(<<>>)],
             [activeCols |-> JArr(<<JStr("noteFld")>>)],
             [activeCols |-> JArr(<<JStr("deck"), JStr("cardDue")>>)],
             [activeCols |-> JStr("noteFld deck")],
             [activeCols |-> JArr(<<JStr("deck"), JInt(1)>>)]}
        decks == {JArr([k \in DOMAIN a |-> JInt(a[k])]) : a \in SeqsUpTo({1, 2}, MaxActive)}
                 \cup {JArr(<<JStr("x")>>)}
    IN  NonObjectDocs
        \cup {JsonText(JObj(o @@ c @@ [BaseSync EXCEPT !.newSpread = JInt(sp),
                                                        !.activeDecks = d])) :
                o \in optional, c \in cols, sp \in {0, 1, 2, 5}, d \in decks}
        \cup {JsonText(JObj(Without(BaseSync, k))) : k \in DOMAIN BaseSync}
        \cup {JsonText(JObj(With(BaseSync, k, WrongValue(BaseSync[k])))) :
                k \in DOMAIN BaseSync}

\* a deck configuration with its three sub-policies
BaseDeckConfig ==
    [autoplay |-> JBool(TRUE), dyn |-> JBool(FALSE), id |-> JInt(1), maxTaken |-> JInt(60),
     mod |-> JInt(0), name |-> JStr("Default"), replayq |-> JBool(TRUE),
     timer |-> JInt(0), usn |-> JInt(0),
     lapse |-> JObj([leechAction |-> JInt(0), leechFails |-> JInt(8), minInt |-> JInt(1),
                     mult |-> JInt(0), delays |-> JArr(<<JInt(10)>>)]),
     new |-> JObj([bury |-> JBool(TRUE), initialFactor |-> JInt(2500), order |-> JInt(1),
                   perDay |-> JInt(20), separate |-> JBool(TRUE),
                   delays |-> JArr(<<JInt(1), JInt(10)>>),
                   ints |-> JArr(<<JInt(1), JInt(4), JInt(7)>>)]),
     rev |-> JObj([bury |-> JBool(TRUE), ease4 |-> JFloat(1300), fuzz |-> JFloat(50),
                   ivlFct |-> JInt(1), maxIvl |-> JInt(36500), perDay |-> JInt(100)])]

DeckConfigDocs ==
    LET top == DOMAIN BaseDeckConfig \ {"lapse", "new", "rev"}
        policy(s) == BaseDeckConfig[s].o
        \* configurations with one key, of the configuration or of a sub-policy,
        \* removed or given a value of another type
        edited ==
            {JObj(Without(BaseDeckConfig, k)) : k \in DOMAIN BaseDeckConfig}
            \cup {JObj(With(BaseDeckConfig, k, WrongValue(BaseDeckConfig[k]))) : k \in top}
            \cup UNION {{JObj(With(BaseDeckConfig, s, JObj(Without(policy(s), k)))) :
                            k \in DOMAIN policy(s)} : s \in {"lapse", "new", "rev"}}
            \cup UNION {{JObj(With(BaseDeckConfig, s,
                                   JObj(With(policy(s), k, WrongValue(policy(s)[k]))))) :
                            k \in DOMAIN policy(s)} : s \in {"lapse", "new", "rev"}}
            \cup {JObj(With(BaseDeckConfig, s, j)) :
                    s \in {"lapse", "new", "rev"}, j \in {JNull, JArr(<<>>)}}
        some ==
            {JObj(BaseDeckConfig),
             JObj([BaseDeckConfig EXCEPT !.id = JInt(2), !.name = JStr("Hard"),
                                         !.autoplay = JBool(FALSE), !.timer = JInt(1)]),
             JObj(Without(BaseDeckConfig, "name"))}
    IN  NonObjectDocs
        \cup {JsonText(JMap(<<Entry(<<"1">>, d)>>)) : d \in edited}
        \cup {JsonText(JMap(<<Entry(k, JObj(BaseDeckConfig))>>)) : k \in Keys.bad}
        \cup KeyedDocs(Keys.good \cup Keys.loose \cup {<<"a">>}, some)

BaseModel ==
    LET field(name, ord) ==
            JObj([font |-> JStr("Arial"), name |-> JStr(name), ord |-> JInt(ord),
                  rtl |-> JBool(FALSE), size |-> JInt(20), sticky |-> JBool(FALSE)])
        template ==
            [afmt |-> JStr("{{Back}}"), bafmt |-> JStr(""), bqfmt |-> JStr(""),
             qfmt |-> JStr("{{Front}}"), name |-> JStr("Card 1"), ord |-> JInt(0)]
    IN  [css |-> JStr(".card {}"), id |-> JInt(1), latexPre |-> JStr("pre"),
         latexPost |-> JStr("post"), mod |-> JInt(5), name |-> JStr("Basic"),
         sortf |-> JInt(0), type |-> JInt(0), usn |-> JInt(0),
         tags |-> JArr(<<>>), vers |-> JArr(<<>>),
         flds |-> JArr(<<field("Front", 0), field("Back", 1)>>),
         tmpls |-> JArr(<<JObj(template)>>)]

ModelDocs ==
    LET Front == BaseModel.flds.a[1]
        BaseTemplate == BaseModel.tmpls.a[1].o
        fldss == {JArr(<<>>), JArr(<<Front>>), JArr(<<Front, BaseModel.flds.a[2]>>)}
        tmplss == {JArr(<<>>), JArr(<<JObj(BaseTemplate)>>),
                     JArr(<<JObj(BaseTemplate),
                            JObj([did |-> JInt(4)]
                                 @@ [BaseTemplate EXCEPT !.name = JStr("Card 2"),
                                                         !.ord = JInt(1)])>>)}
        r1 == JArr(<<JInt(0), JStr("any"), JArr(<<JInt(0)>>)>>)
        r2 == JArr(<<JInt(1), JStr("all"), JArr(<<JInt(0), JInt(1)>>)>>)
        reqs == {<<>>, [req |-> JArr(<<>>)], [req |-> JArr(<<r1>>)],
                   [req |-> JArr(<<r1, r2>>)], [req |-> JNull]}
        badreqs == {[req |-> JArr(<<r1, x>>)] :
                       x \in {JArr(<<>>), JArr(<<JInt(0), JStr("any")>>),
                              JArr(<<JStr("0"), JStr("any"), JArr(<<>>)>>),
                              JArr(<<JInt(0), JInt(1), JArr(<<>>)>>),
                              JArr(<<JInt(0), JStr("any"), JInt(0)>>),
                              JArr(<<JInt(0), JStr("any"), JArr(<<JStr("x")>>)>>),
                              JInt(3)}}
        dids == {<<>>, [did |-> JInt(7)], [did |-> JChars(<<"4", "2">>)],
                   [did |-> JChars(<<"x">>)], [did |-> JNull]}
        badtmpls == {JInt(1), JArr(<<JInt(1)>>)}
                      \cup {JArr(<<JObj(Without(BaseTemplate, k))>>) : k \in DOMAIN BaseTemplate}
                      \cup {JArr(<<JObj(With(BaseTemplate, k, WrongValue(BaseTemplate[k])))>>) :
                              k \in DOMAIN BaseTemplate}
        objects ==
            [valid |->
               {JObj(r @@ d @@ [BaseModel EXCEPT !.flds = f, !.tmpls = t, !.type = JInt(ty)]) :
                   f \in fldss, t \in tmplss, r \in reqs, d \in dids \ {[did |-> JChars(<<"x">>)]},
                   ty \in {0, 1, 7}},
             invalid |->
               {JObj(Without(BaseModel, k)) : k \in DOMAIN BaseModel \ {"tags", "vers", "flds"}}
               \cup {JObj(With(BaseModel, k, WrongValue(BaseModel[k]))) :
                       k \in DOMAIN BaseModel \ {"tags", "vers", "flds"}}
               \cup {JObj(r @@ BaseModel) : r \in badreqs}
               \cup {JObj([did |-> JChars(<<"x">>)] @@ BaseModel)}
               \cup {JObj([BaseModel EXCEPT !.tmpls = t]) : t \in badtmpls},
             some |->
               {JObj(BaseModel),
                JObj([did |-> JInt(7)] @@ [BaseModel EXCEPT !.id = JInt(2), !.flds = JArr(<<>>)]),
                JObj(Without(BaseModel, "css"))}]
    IN  NonObjectDocs
        \cup {JsonText(JMap(<<Entry(<<"1">>, d)>>)) : d \in objects.valid \cup objects.invalid}
        \cup {JsonText(JMap(<<Entry(k, JObj(BaseModel))>>)) : k \in Keys.bad}
        \cup KeyedDocs(Keys.good \cup Keys.loose \cup {<<"a">>}, objects.some)

\* the parsers, with an empty activeCols list taken for the four defaults
Parse_Mutant(kind, text) ==
    LET defaulted(r) ==
            IF IsOk(r) /\ r.val.active_cols = <<>>
            THEN Ok([r.val EXCEPT !.active_cols = <<"noteFld", "template", "cardDue", "deck">>])
            ELSE r
    IN  CASE kind = "SyncConfig" -> defaulted(SyncConfig_new(text))
          [] kind = "Model" -> Model_parse(text)
          [] kind = "Deck" -> Deck_parse(text)
          [] kind = "DeckConfig" -> DeckConfig_parse(text)

\* the parser and the serializer of each document of the col row, as
\* Collection::new and Collection::save call them
Parse(kind, text) ==
    CASE kind = "SyncConfig" -> SyncConfig_new(text)
      [] kind = "Model" -> Model_parse(text)
      [] kind = "Deck" -> Deck_parse(text)
      [] kind = "DeckConfig" -> DeckConfig_parse(text)

Serialize(kind, val) ==
    CASE kind = "SyncConfig" -> json_stringify(SyncConfig_to_json(val))
      [] kind = "Model" -> json_stringify(Model_to_json_all(val))
      [] kind = "Deck" -> json_stringify(Deck_to_json_all(val))
      [] kind = "DeckConfig" -> json_stringify(DeckConfig_to_json_all(val))

InitDoc ==
    /\ \/ doc \in {[kind |-> "SyncConfig", text |-> t] : t \in SyncDocs}
       \/ doc \in {[kind |-> "Model", text |-> t] : t \in ModelDocs}
       \/ doc \in {[kind |-> "Deck", text |-> t] : t \in DeckDocs}
       \/ doc \in {[kind |-> "DeckConfig", text |-> t] : t \in DeckConfigDocs}
    /\ parsed = Idle /\ emitted = Idle /\ reparsed = Idle
    /\ eop = Idle
    /\ db = Idle /\ fresh = Idle /\ loaded = Idle /\ saved = Idle /\ reloaded = Idle
    /\ archive = Idle /\ fs = Idle /\ apkg = Idle /\ closed = Idle

\* X::parse(text) / SyncConfig::new(text)
DocParse ==
    /\ parsed.tag = "Idle"
    /\ parsed' = Parse(doc.kind, doc.text)
    /\ UNCHANGED <<doc, emitted, reparsed>>
    /\ UNCHANGED <<varsEnum, varsColl, varsApkg>>

\* json::stringify(X::to_json_all(..)) / json::stringify(config.to_json())
DocSerialize ==
    /\ IsOk(parsed) /\ emitted.tag = "Idle"
    /\ emitted' = [tag |-> "Text", text |-> Serialize(doc.kind, parsed.val)]
    /\ UNCHANGED <<doc, parsed, reparsed>>
    /\ UNCHANGED <<varsEnum, varsColl, varsApkg>>

\* the parse of the serialized text
DocReparse ==
    /\ emitted.tag = "Text" /\ reparsed.tag = "Idle"
    /\ reparsed' = Parse(doc.kind, emitted.text)
    /\ UNCHANGED <<doc, parsed, emitted>>
    /\ UNCHANGED <<varsEnum, varsColl, varsApkg>>

NextDoc ==
    \/ DocParse
    \/ DocSerialize
    \/ DocReparse

SpecDoc == InitDoc /\ [][NextDoc]_vars

-----------------------------------------------------------------------------
(* The database (rusqlite over SQLite).  A database is the set of its      *)
(* tables and, for each table, the sequence of its rows; a row is a        *)
(* function from column name to cell.  A path without a file opens as a    *)
(* database without tables.  A cell is NULL, an integer or a text; a text  *)
(* holds a string, a sequence of characters the code splits, or a JSON     *)
(* document.                                                               *)

SqlNull == [t |-> "null"]
SqlInt(n) == [t |-> "int", i |-> n]
SqlText(s) == [t |-> "text", s |-> s]

\* the columns of the Anki tables addressed by Collection::new and save
AnkiColumns ==
    [col |-> {"id", "crt", "mod", "scm", "ver", "dty", "usn", "ls", "conf", "models",
              "decks", "dconf", "tags"},
     cards |-> {"id", "nid", "did", "ord", "mod", "usn", "type", "queue", "due", "ivl",
                "factor", "reps", "lapses", "left", "odue", "odid", "flags", "data"},
     notes |-> {"id", "guid", "mid", "mod", "usn", "tags", "flds", "sfld", "csum",
                "flags", "data"},
     revlog |-> {"id", "cid", "usn", "ease", "ivl", "lastIvl", "factor", "time", "type"},
     graves |-> {"usn", "oid", "type"}]

\* Connection::prepare / Batch::next on one statement: SQLite compiles it
\* against the schema.  A statement is its verb, its table, the columns it
\* names and the number of placeholders in its VALUES list.
Prepare(conn, stmt) ==
    IF stmt.verb \notin {"SELECT", "INSERT", "DELETE"}
    THEN Err("Sqlite", "syntax error")
    ELSE IF stmt.table \notin conn.schema
    THEN Err("Sqlite", "no such table")
    ELSE IF \E k \in DOMAIN stmt.cols : stmt.cols[k] \notin AnkiColumns[stmt.table]
    THEN Err("Sqlite", "no such column")
    ELSE IF stmt.verb = "INSERT" /\ stmt.values # Len(stmt.cols)
    THEN Err("Sqlite", "values for columns")
    ELSE Ok(stmt)

\* Statement::execute(params) of a prepared statement: the outcome and the
\* database after it
Execute(conn, stmt, params) ==
    IF Len(params) # stmt.values
    THEN [res |-> Err("Sqlite", "InvalidParameterCount"), conn |-> conn]
    ELSE IF stmt.verb = "INSERT"
    THEN LET at(c) == CHOOSE k \in DOMAIN stmt.cols : stmt.cols[k] = c
             row == [c \in AnkiColumns[stmt.table] |->
                        IF \E k \in DOMAIN stmt.cols : stmt.cols[k] = c
                        THEN params[at(c)] ELSE SqlNull]
         IN  [res |-> Ok("inserted"),
              conn |-> [conn EXCEPT !.rows[stmt.table] = Append(@, row)]]
    ELSE [res |-> Ok("deleted"), conn |-> [conn EXCEPT !.rows[stmt.table] = <<>>]]

\* `while let Some(mut stmt) = batch.next()? { stmt.execute([])?; }`
RECURSIVE ExecuteBatch(_, _, _)
ExecuteBatch(conn, stmts, i) ==
    IF i > Len(stmts) THEN [res |-> Ok("done"), conn |-> conn]
    ELSE LET p == Prepare(conn, stmts[i])
             e == Execute(conn, stmts[i], <<>>)
         IN  IF ~IsOk(p) THEN [res |-> p, conn |-> conn]
             ELSE IF ~IsOk(e.res) THEN e
             ELSE ExecuteBatch(e.conn, stmts, i + 1)

\* `if let Some(mut stmt) = batch.next()? { for item in v { stmt.execute(..)?; } }`
\* the statement is prepared once, then executed with each item's parameters
RECURSIVE ExecuteEach(_, _, _, _)
ExecuteEach(conn, stmt, items, i) ==
    IF i > Len(items) THEN [res |-> Ok("done"), conn |-> conn]
    ELSE LET e == Execute(conn, stmt, items[i])
         IN  IF ~IsOk(e.res) THEN e
             ELSE ExecuteEach(e.conn, stmt, items, i + 1)

save_all(conn, stmt, items) ==
    LET p == Prepare(conn, stmt)
    IN  IF ~IsOk(p) THEN [res |-> p, conn |-> conn]
        ELSE ExecuteEach(conn, stmt, items, 1)


\* a split that drops the empty pieces, as str::split_whitespace does
RECURSIVE split_Mutant(_, _, _)
split_Mutant(s, pat, piece) ==
    LET out == IF piece = <<>> THEN <<>> ELSE <<piece>>
    IN  IF s = <<>> THEN out
        ELSE IF Len(s) >= Len(pat) /\ SubSeq(s, 1, Len(pat)) = pat
        THEN out \o split_Mutant(SubSeq(s, Len(pat) + 1, Len(s)), pat, <<>>)
        ELSE split_Mutant(Tail(s), pat, Append(piece, Head(s)))

\* str::split(pat) for a non-empty pattern: the pieces between the matches
RECURSIVE split(_, _, _)
split(s, pat, piece) ==
    IF s = <<>> THEN <<piece>>
    ELSE IF Len(s) >= Len(pat) /\ SubSeq(s, 1, Len(pat)) = pat
    THEN <<piece>> \o split(SubSeq(s, Len(pat) + 1, Len(s)), pat, <<>>)
    ELSE split(Tail(s), pat, Append(piece, Head(s)))

\* the literal "\0x1f": the characters NUL, x, 1, f
FieldSeparator == <<"NUL", "x", "1", "f">>

\* Note::save_all
Note_save_all(conn, v) ==
    save_all(conn,
        [verb |-> "INSERT", table |-> "notes", values |-> 11,
         cols |-> <<"id", "guid", "mid", "mod", "usn", "tags", "flds", "sfld",
                          "csum", "flags", "data">>],
        [k \in DOMAIN v |->
            <<SqlInt(v[k].id), SqlText(v[k].guid), SqlInt(v[k].model_id),
              SqlInt(v[k].mod_time), SqlInt(v[k].usn),
              SqlText(Join(v[k].tags, <<" ">>)),
              SqlText(Join(v[k].fields, FieldSeparator)),
              SqlText(v[k].sort_field), SqlInt(v[k].sum), SqlInt(0), SqlText("")>>])

\* Card::save_all: eighteen columns (one of them laspses), seventeen
\* placeholders, eighteen parameters
Card_save_all(conn, v) ==
    save_all(conn,
        [verb |-> "INSERT", table |-> "cards", values |-> 17,
         cols |-> <<"id", "nid", "did", "ord", "mod", "usn", "type", "queue", "due",
                          "ivl", "factor", "reps", "laspses", "left", "odue", "odid",
                          "flags", "data">>],
        [k \in DOMAIN v |->
            <<SqlInt(v[k].id), SqlInt(v[k].note_id), SqlInt(v[k].deck_id),
              SqlInt(v[k].ordinal), SqlInt(v[k].modification_time), SqlInt(v[k].usn),
              SqlInt(CardType_into(v[k].card_type)), SqlInt(CardQueue_into(v[k].queue)),
              SqlInt(v[k].due), SqlInt(v[k].interval), SqlInt(v[k].factor),
              SqlInt(v[k].reps), SqlInt(v[k].lapses), SqlInt(v[k].left),
              SqlInt(v[k].original_due), SqlInt(v[k].original_deck_id),
              SqlInt(v[k].flags), SqlText("")>>])

\* ReviewLog::save_all
ReviewLog_save_all(conn, v) ==
    save_all(conn,
        [verb |-> "INSERT", table |-> "revlog", values |-> 9,
         cols |-> <<"id", "cid", "usn", "ease", "ivl", "lastIvl", "factor", "time",
                           "type">>],
        [k \in DOMAIN v |->
            <<SqlInt(v[k].id), SqlInt(v[k].card_id), SqlInt(v[k].usn),
              SqlInt(ReviewAnswer_into_i64(v[k].ease, v[k].card_type = "Review")),
              SqlInt(v[k].interval), SqlInt(v[k].last_interval), SqlInt(v[k].factor),
              SqlInt(v[k].time), SqlInt(CardType_into(v[k].card_type))>>])

\* Grave::save_all
Grave_save_all(conn, v) ==
    save_all(conn, [verb |-> "INSERT", table |-> "graves", values |-> 3,
         cols |-> <<"usn", "oid", "type">>],
        [k \in DOMAIN v |->
            <<SqlInt(v[k].usn), SqlInt(v[k].oid),
              SqlInt(GraveType_into(v[k].grave_type))>>])

-----------------------------------------------------------------------------
(* Collection (deck.rs 1974-2164).                                         *)

\* Collection::new(path).  A closure of query_map returns Err at its first
\* row.get of a cell of another type; the struct fields are evaluated in the
\* order written, so the unwrap() of a codec result comes after the gets of
\* columns 0..10 and before the get of column 11.
Collection_new(conn) ==
    LET select(table, cols) ==
            Prepare(conn, [verb |-> "SELECT", table |-> table, cols |-> cols, values |-> 0])
        typed(row, cols, ty) == \A c \in cols : row[c].t = ty
        InvalidColumnType == Err("Sqlite", "InvalidColumnType")
        col == conn.rows.col[1]
        config == SyncConfig_new(col.conf.s)
        models == Model_parse(col.models.s)
        decks == Deck_parse(col.decks.s)
        deck_configs == DeckConfig_parse(col.dconf.s)
        Card(row) ==
            [id |-> row.id.i, note_id |-> row.nid.i, deck_id |-> row.did.i,
             ordinal |-> row.ord.i, modification_time |-> row.mod.i, usn |-> row.usn.i,
             card_type |-> CardType_from(row.type.i), queue |-> CardQueue_from(row.queue.i),
             due |-> row.due.i, interval |-> row.ivl.i, factor |-> row.factor.i,
             reps |-> row.reps.i, lapses |-> row.lapses.i, left |-> row.left.i,
             original_due |-> row.odue.i, original_deck_id |-> row.odid.i,
             flags |-> row.flags.i]
        Note(row) ==
            [id |-> row.id.i, guid |-> row.guid.s, model_id |-> row.mid.i,
             mod_time |-> row.mod.i, usn |-> row.usn.i,
             tags |-> split(row.tags.s, <<" ">>, <<>>),
             fields |-> split(row.flds.s, FieldSeparator, <<>>),
             sort_field |-> row.sfld.s, sum |-> row.csum.i]
        ReviewLog(row) ==
            LET card_type == CardType_from(row.type.i)
            IN  [id |-> row.id.i, card_id |-> row.cid.i, usn |-> row.usn.i,
                 ease |-> ReviewAnswer_from_i64(card_type = "Review", row.ease.i),
                 interval |-> row.ivl.i, last_interval |-> row.lastIvl.i,
                 factor |-> row.factor.i, time |-> row.time.i, card_type |-> card_type]
        Grave(row) ==
            [usn |-> row.usn.i, oid |-> row.oid.i, grave_type |-> GraveType_from(row.type.i)]
        card_ok(row) ==
            typed(row, {"id", "nid", "did", "ord", "mod", "usn", "type", "queue", "due",
                        "ivl", "factor", "reps", "lapses", "left", "odue", "odid",
                        "flags"}, "int")
        note_ok(row) ==
            /\ typed(row, {"tags", "flds", "guid", "sfld"}, "text")
            /\ typed(row, {"id", "mid", "mod", "usn", "csum"}, "int")
        rev_ok(row) ==
            typed(row, {"id", "cid", "usn", "ease", "ivl", "lastIvl", "factor", "time",
                        "type"}, "int")
        grave_ok(row) == typed(row, {"usn", "oid", "type"}, "int")
        all(table, ok(_)) == \A k \in DOMAIN conn.rows[table] : ok(conn.rows[table][k])
        p_col == select("col", <<"id", "crt", "mod", "scm", "ver", "usn", "ls", "conf",
                                 "models", "decks", "dconf", "tags">>)
        p_cards == select("cards", <<"id", "nid", "did", "ord", "mod", "usn", "type",
                                     "queue", "due", "ivl", "factor", "reps", "lapses",
                                     "left", "odue", "odid", "flags">>)
        p_notes == select("notes", <<"id", "guid", "mid", "mod", "usn", "tags", "flds",
                                     "sfld", "csum">>)
        p_revlog == select("revlog", <<"id", "cid", "usn", "ease", "ivl", "lastIvl",
                                       "factor", "time", "type">>)
        p_graves == select("graves", <<"usn", "oid", "type">>)
    IN  IF ~IsOk(p_col) THEN p_col
        ELSE IF conn.rows.col = <<>> THEN Panic("col_iter.next().unwrap()")
        ELSE IF ~typed(col, {"conf", "models", "decks", "dconf"}, "text")
        THEN InvalidColumnType
        ELSE IF ~typed(col, {"id", "crt", "mod", "scm", "ver", "usn", "ls"}, "int")
        THEN InvalidColumnType
        ELSE IF ~IsOk(config) THEN Panic("SyncConfig::new(&config_txt).unwrap()")
        ELSE IF ~IsOk(models) THEN Panic("Model::parse(&model_txt).unwrap()")
        ELSE IF ~IsOk(decks) THEN Panic("Deck::parse(&deck_txt).unwrap()")
        ELSE IF ~IsOk(deck_configs) THEN Panic("DeckConfig::parse(&dconf_txt).unwrap()")
        ELSE IF col.tags.t # "text" THEN InvalidColumnType
        ELSE IF ~IsOk(p_cards) THEN p_cards
        ELSE IF ~all("cards", card_ok) THEN Panic("card result.unwrap()")
        ELSE IF ~IsOk(p_notes) THEN p_notes
        ELSE IF ~all("notes", note_ok) THEN Panic("note result.unwrap()")
        ELSE IF ~IsOk(p_revlog) THEN p_revlog
        ELSE IF ~all("revlog", rev_ok) THEN Panic("revlog result.unwrap()")
        ELSE IF ~IsOk(p_graves) THEN p_graves
        ELSE IF ~all("graves", grave_ok) THEN Panic("grave result.unwrap()")
        ELSE Ok([id |-> col.id.i, crt |-> col.crt.i, modification_time |-> col.mod.i,
                 schema_time |-> col.scm.i, version |-> col.ver.i, usn |-> col.usn.i,
                 last_sync |-> col.ls.i, config |-> config.val, models |-> models.val,
                 decks |-> decks.val, deck_configs |-> deck_configs.val,
                 tags |-> col.tags.s,
                 cards |-> [k \in DOMAIN conn.rows.cards |-> Card(conn.rows.cards[k])],
                 notes |-> [k \in DOMAIN conn.rows.notes |-> Note(conn.rows.notes[k])],
                 revlog |-> [k \in DOMAIN conn.rows.revlog |->
                                ReviewLog(conn.rows.revlog[k])],
                 graves |-> [k \in DOMAIN conn.rows.graves |-> Grave(conn.rows.graves[k])]])

\* a batch of statements that SQLite accepts: DELETE in place of TRUNCATE
ClearSql_Mutant ==
    [k \in 1..5 |->
        [verb |-> "DELETE", table |-> <<"cards", "notes", "col", "graves", "revlog">>[k],
         cols |-> <<>>, values |-> 0]]

\* the batch that opens Collection::save; TRUNCATE is no statement of SQLite
ClearSql ==
    [k \in 1..5 |->
        [verb |-> "TRUNCATE", table |-> <<"cards", "notes", "col", "graves", "revlog">>[k],
         cols |-> <<>>, values |-> 0]]

\* (a variant that writes nothing and reports success)
Collection_save_Mutant(self, conn) == [res |-> Ok(conn), conn |-> conn]

\* Collection::save(self, path): the outcome and the database after it.  No
\* transaction is opened: each statement takes effect as it is executed.
Collection_save(self, conn) ==
    LET cleared == ExecuteBatch(conn, ClearSql, 1)
        config == json_stringify(SyncConfig_to_json(self.config))
        decks == json_stringify(Deck_to_json_all(self.decks))
        deck_configs == json_stringify(DeckConfig_to_json_all(self.deck_configs))
        models == json_stringify(Model_to_json_all(self.models))
        col == save_all(cleared.conn,
                   [verb |-> "INSERT", table |-> "col", values |-> 13,
         cols |-> <<"id", "crt", "mod", "scm", "ver", "dty", "usn", "ls",
                                   "conf", "models", "decks", "dconf", "tags">>],
                   <<<<SqlInt(self.id), SqlInt(self.crt), SqlInt(self.modification_time),
                       SqlInt(self.schema_time), SqlInt(self.version), SqlInt(0),
                       SqlInt(self.usn), SqlInt(self.last_sync), SqlText(config),
                       SqlText(models), SqlText(decks), SqlText(deck_configs),
                       SqlText(self.tags)>>>>)
        notes == Note_save_all(col.conn, self.notes)
        cards == Card_save_all(notes.conn, self.cards)
        revlog == ReviewLog_save_all(cards.conn, self.revlog)
        graves == Grave_save_all(revlog.conn, self.graves)
    IN  IF ~IsOk(cleared.res) THEN cleared
        ELSE IF ~IsOk(col.res) THEN col
        ELSE IF ~IsOk(notes.res) THEN notes
        ELSE IF ~IsOk(cards.res) THEN cards
        ELSE IF ~IsOk(revlog.res) THEN revlog
        ELSE graves

-----------------------------------------------------------------------------
(* Spec: a database is loaded with Collection::new, the collection is      *)
(* saved with Collection::save, in place (as Apkg::save does) or to a      *)
(* fresh database, and the saved database is loaded again.                 *)

\* tables of up to MaxRows cards, notes, review-log entries and graves
MaxRows == 2

\* the i-th row of a table
Row(table, i) ==
    CASE table = "col" ->
            [id |-> SqlInt(i), crt |-> SqlInt(3), mod |-> SqlInt(5), scm |-> SqlInt(4),
             ver |-> SqlInt(11), dty |-> SqlInt(0), usn |-> SqlInt(0), ls |-> SqlInt(0),
             conf |-> SqlText(JsonText(JObj(BaseSync))),
             models |-> SqlText(JsonText(JMap(<<Entry(<<"1">>, JObj(BaseModel))>>))),
             decks |-> SqlText(JsonText(JMap(<<Entry(<<"1">>, JObj(BaseDeck))>>))),
             dconf |-> SqlText(JsonText(JMap(<<Entry(<<"1">>, JObj(BaseDeckConfig))>>))),
             tags |-> SqlText("{}")]
      [] table = "cards" ->
            [id |-> SqlInt(i), nid |-> SqlInt(i), did |-> SqlInt(1), ord |-> SqlInt(0),
             mod |-> SqlInt(5), usn |-> SqlInt(-1), type |-> SqlInt(i - 1),
             queue |-> SqlInt(i - 3), due |-> SqlInt(i), ivl |-> SqlInt(0),
             factor |-> SqlInt(2500), reps |-> SqlInt(0), lapses |-> SqlInt(0),
             left |-> SqlInt(0), odue |-> SqlInt(0), odid |-> SqlInt(0),
             flags |-> SqlInt(0), data |-> SqlText("")]
      [] table = "notes" ->
            [id |-> SqlInt(i), guid |-> SqlText("g"), mid |-> SqlInt(1), mod |-> SqlInt(5),
             usn |-> SqlInt(-1),
             tags |-> SqlText(CASE i = 1 -> <<>>
                                 [] i = 2 -> <<"a", " ", "b">>
                                 [] OTHER -> <<"a">>),
             flds |-> SqlText(CASE i = 1 -> <<"F", "US", "B">>
                                 [] i = 2 -> <<"F", "NUL", "x", "1", "f", "B">>
                                 [] OTHER -> <<"F">>),
             sfld |-> SqlText("F"), csum |-> SqlInt(9), flags |-> SqlInt(0),
             data |-> SqlText("")]
      [] table = "revlog" ->
            [id |-> SqlInt(i), cid |-> SqlInt(1), usn |-> SqlInt(-1), ease |-> SqlInt(i),
             ivl |-> SqlInt(1), lastIvl |-> SqlInt(0), factor |-> SqlInt(2500),
             time |-> SqlInt(800), type |-> SqlInt(i % 3)]
      [] table = "graves" ->
            [usn |-> SqlInt(-1), oid |-> SqlInt(i), type |-> SqlInt(i - 1)]

Rows(table, n) == [i \in 1..n |-> Row(table, i)]

\* a database of the five tables
Database(col, cards, notes, revlog, graves) ==
    [schema |-> DOMAIN AnkiColumns,
     rows |-> [col |-> col, cards |-> cards, notes |-> notes, revlog |-> revlog,
               graves |-> graves]]

\* a database of the given tables, without rows
EmptyDatabase(schema) ==
    [schema |-> schema,
     rows |-> [col |-> <<>>, cards |-> <<>>, notes |-> <<>>, revlog |-> <<>>,
               graves |-> <<>>]]

\* col rows whose cells or documents Collection::new cannot decode
UndecodableCols ==
    LET base == Row("col", 1)
        one(v) == JMap(<<Entry(<<"1">>, JObj(v))>>)
        docs == [conf |-> {JObj(Without(BaseSync, "curDeck"))},
                 models |-> {one(Without(BaseModel, "css")),
                             JMap(<<Entry(<<"a">>, JObj(BaseModel))>>)},
                 decks |-> {one(Without(BaseDeck, "name"))},
                 dconf |-> {one(Without(BaseDeckConfig, "rev"))}]
    IN  [cells |-> {[base EXCEPT ![c] = SqlNull] : c \in AnkiColumns.col \ {"dty"}}
                   \cup {[base EXCEPT !.id = SqlText("1")],
                         [base EXCEPT !.conf = SqlText(NotJson), !.tags = SqlNull],
                         [base EXCEPT !.conf = SqlText(NotJson), !.id = SqlNull]},
         documents |-> {[base EXCEPT ![c] = SqlText(d)] :
                          c \in {"conf", "models", "decks", "dconf"},
                          d \in {NotJson, JsonText(JArr(<<>>)), JsonText(JInt(1))}}
                       \cup UNION {{[base EXCEPT ![c] = SqlText(JsonText(d))] : d \in docs[c]} :
                                      c \in {"conf", "models", "decks", "dconf"}}]

\* rows of the other tables with a cell of a type the row closure rejects
UndecodableRows ==
    LET nulls == [cards |-> {"id", "type", "flags"}, notes |-> {"tags", "sfld", "csum"},
                  revlog |-> {"ease", "type"}, graves |-> {"type"}]
    IN  [t \in DOMAIN AnkiColumns \ {"col"} |->
            {[Row(t, 1) EXCEPT ![c] = SqlNull] : c \in nulls[t]}
            \cup (IF t = "notes" THEN {[Row(t, 1) EXCEPT !.sfld = SqlInt(7)]} ELSE {})]

Databases ==
    LET one(t) == Rows(t, 1)
        cols == {<<>>, Rows("col", 2),
                 <<[Row("col", 1) EXCEPT
                      !.models = SqlText(JsonText(JMap(<<>>))),
                      !.decks = SqlText(JsonText(JMap(<<Entry(<<"1">>, JObj(BaseDeck)),
                                                       Entry(<<"2">>, JObj(BaseDeck))>>)))]>>}
                \cup {<<c>> : c \in UndecodableCols.cells \cup UndecodableCols.documents}
        spoil(t, n, bad, u) == IF t = u THEN Append(Rows(t, n), bad) ELSE one(u)
    IN  {EmptyDatabase(DOMAIN AnkiColumns \ missing) : missing \in {DOMAIN AnkiColumns} \cup {{t} : t \in DOMAIN AnkiColumns}}
        \cup {[EmptyDatabase(DOMAIN AnkiColumns \ {t}) EXCEPT !.rows.col = Rows("col", 1)] :
                t \in DOMAIN AnkiColumns \ {"col"}}
        \cup {Database(Rows("col", 1), Rows("cards", a), Rows("notes", b),
                       Rows("revlog", c), Rows("graves", d)) : a, b, c, d \in 0..MaxRows}
        \cup {Database(c, one("cards"), one("notes"), one("revlog"), one("graves")) :
                c \in cols}
        \cup UNION {{Database(Rows("col", 1), spoil(t, n, bad, "cards"),
                              spoil(t, n, bad, "notes"), spoil(t, n, bad, "revlog"),
                              spoil(t, n, bad, "graves")) :
                        n \in 0..(MaxRows - 1), bad \in UndecodableRows[t]} :
                            t \in DOMAIN AnkiColumns \ {"col"}}

\* the databases at the path of a save to a new place: no file, or the
\* tables of an empty collection
FreshDatabases == {EmptyDatabase({}), EmptyDatabase(DOMAIN AnkiColumns)}

Init ==
    /\ db \in Databases
    /\ fresh \in FreshDatabases
    /\ loaded = Idle /\ saved = Idle /\ reloaded = Idle
    /\ archive = Idle /\ fs = Idle /\ apkg = Idle /\ closed = Idle
    /\ eop = Idle /\ doc = Idle /\ parsed = Idle /\ emitted = Idle /\ reparsed = Idle

At(target) == IF target = "db" THEN db ELSE fresh

\* Collection::new(path)
Load ==
    /\ loaded.tag = "Idle"
    /\ loaded' = Collection_new(db)
    /\ UNCHANGED <<db, fresh, saved, reloaded>>
    /\ UNCHANGED <<varsEnum, varsDoc, varsApkg>>

\* collection.save(path), on the path it was loaded from or on a fresh one
Save(target) ==
    /\ IsOk(loaded) /\ saved.tag = "Idle"
    /\ LET s == Collection_save(loaded.val, At(target))
       IN  /\ saved' = [tag |-> "Done", target |-> target, res |-> s.res,
                        before |-> At(target)]
           /\ db' = IF target = "db" THEN s.conn ELSE db
           /\ fresh' = IF target = "fresh" THEN s.conn ELSE fresh
    /\ UNCHANGED <<loaded, reloaded>>
    /\ UNCHANGED <<varsEnum, varsDoc, varsApkg>>

\* Collection::new on the path given to save
Reload ==
    /\ saved.tag = "Done" /\ reloaded.tag = "Idle"
    /\ reloaded' = Collection_new(At(saved.target))
    /\ UNCHANGED <<db, fresh, loaded, saved>>
    /\ UNCHANGED <<varsEnum, varsDoc, varsApkg>>

Next ==
    \/ Load
    \/ \E target \in {"db", "fresh"} : Save(target)
    \/ Reload

Spec == Init /\ [][Next]_vars

-----------------------------------------------------------------------------
(* SpecNote: the notes table alone.  A database holds the col row and one  *)
(* note whose tags and flds columns are texts of a bounded set;            *)
(* Collection::new loads it, Note::save_all writes the loaded notes to a   *)
(* database that holds the same col row and no notes, and Collection::new  *)
(* loads that database.  US is the character 0x1F, NUL the character 0.    *)

\* tags columns of up to MaxText characters are loaded
MaxText == 3

\* the texts of the tags and flds columns
NoteTexts ==
    [tags |-> SeqsUpTo({"a", " "}, MaxText),
     flds |-> {<<>>, <<"F">>, <<"US">>, <<"F", "US", "B">>, <<"F", "US", "US", "B">>,
               <<"F", "US", "B", "US", "C">>, <<"F", "NUL", "B">>,
               <<"F", "x", "1", "f", "B">>, <<"F", "NUL", "x", "1", "f", "B">>,
               <<"F", "US", "NUL", "x", "1", "f">>}]

NoteDatabases ==
    {Database(Rows("col", 1), <<>>,
              <<[Row("notes", 1) EXCEPT !.tags = SqlText(t), !.flds = SqlText(f)]>>,
              <<>>, <<>>) : t \in NoteTexts.tags, f \in NoteTexts.flds}

InitNote ==
    /\ db \in NoteDatabases
    /\ fresh = [db EXCEPT !.rows.notes = <<>>]
    /\ loaded = Idle /\ saved = Idle /\ reloaded = Idle
    /\ archive = Idle /\ fs = Idle /\ apkg = Idle /\ closed = Idle
    /\ eop = Idle /\ doc = Idle /\ parsed = Idle /\ emitted = Idle /\ reparsed = Idle

\* Note::save_all(&conn, notes) on the database without notes
SaveNotes ==
    /\ IsOk(loaded) /\ saved.tag = "Idle"
    /\ LET s == Note_save_all(fresh, loaded.val.notes)
       IN  /\ saved' = [tag |-> "Done", target |-> "fresh", res |-> s.res,
                        before |-> fresh]
           /\ fresh' = s.conn
    /\ UNCHANGED <<db, loaded, reloaded>>
    /\ UNCHANGED <<varsEnum, varsDoc, varsApkg>>

NextNote ==
    \/ Load
    \/ SaveNotes
    \/ Reload

SpecNote == InitNote /\ [][NextNote]_vars

-----------------------------------------------------------------------------
(* The file system under Apkg (apkg.rs).  A path is the sequence of its    *)
(* components from the root; the file system is a function from the paths  *)
(* that exist to their nodes.  A node is a directory or a file, with the   *)
(* owner's write permission ("rw" or "ro": the process is unprivileged) and *)
(* for a file the content: a database, a text, or bytes that are neither.  *)

\* the directory tempfile::tempdir() creates (a fresh name under /tmp)
tempdir == <<"tmp", "ws">>

\* dir.join(path) as the system resolves it: ".." steps to the parent and
\* "." stays
RECURSIVE join(_, _)
join(dir, path) ==
    IF path = <<>> THEN dir
    ELSE join(CASE Head(path) = ".." -> SubSeq(dir, 1, Len(dir) - 1)
                [] Head(path) = "." -> dir
                [] OTHER -> Append(dir, Head(path)), Tail(path))

\* fs::create_dir_all(dir.join(path)): the missing directories on the way
\* are created, each in a parent that is writable
RECURSIVE create_dir_all(_, _, _)
create_dir_all(f, dir, path) ==
    LET next == join(dir, <<Head(path)>>)
        made == (next :> [dir |-> TRUE, mode |-> "rw", data |-> [t |-> "dir"]]) @@ f
    IN  IF path = <<>> THEN [res |-> Ok(dir), fs |-> f]
        ELSE IF next \in DOMAIN f
        THEN IF f[next].dir THEN create_dir_all(f, next, Tail(path))
             ELSE [res |-> Err(IF Tail(path) = <<>> THEN "AlreadyExists"
                               ELSE "NotADirectory", "fs::create_dir_all"), fs |-> f]
        ELSE IF f[dir].mode = "ro"
        THEN [res |-> Err("PermissionDenied", "fs::create_dir_all"), fs |-> f]
        ELSE create_dir_all(made, next, Tail(path))

\* fs::File::create(path) followed by the write of data: the file is created
\* in a writable directory, or truncated when it exists and is writable
File_create(f, path, data) ==
    LET parent == SubSeq(path, 1, Len(path) - 1)
        fail(kind) == [res |-> Err(kind, "fs::File::create"), fs |-> f]
    IN  IF path \in DOMAIN f
        THEN IF f[path].dir THEN fail("IsADirectory")
             ELSE IF f[path].mode = "ro" THEN fail("PermissionDenied")
             ELSE [res |-> Ok(path), fs |-> [f EXCEPT ![path].data = data]]
        ELSE IF parent \notin DOMAIN f THEN fail("NotFound")
        ELSE IF ~f[parent].dir THEN fail("NotADirectory")
        ELSE IF f[parent].mode = "ro" THEN fail("PermissionDenied")
        ELSE [res |-> Ok(path),
              fs |-> (path :> [dir |-> FALSE, mode |-> "rw", data |-> data]) @@ f]

\* fs::remove_dir_all(dir), as TempDir's drop calls it: the error is dropped.
\* A node goes when it and all below it sit in writable directories; the
\* nodes that stay are the fewest the traversal can leave.
remove_dir_all(f, dir) ==
    LET below(p, q) == Len(q) >= Len(p) /\ SubSeq(q, 1, Len(p)) = p
        stuck(q) == f[SubSeq(q, 1, Len(q) - 1)].mode = "ro"
        stays(p) == \E q \in DOMAIN f : below(p, q) /\ stuck(q)
        keep == {p \in DOMAIN f : below(dir, p) => stays(p)}
    IN  [p \in keep |-> f[p]]

\* (a variant that hands out every name as it is stored)
enclosed_name_Mutant(name) == Some(name.path)

\* ZipFile::enclosed_name(): None for a name that is absolute or that steps
\* above its starting directory at any component
enclosed_name(name) ==
    LET count(k, S) == Cardinality({i \in 1..k : (name.path[i] \in S)})
    IN  IF name.abs \/ \E k \in 1..Len(name.path) :
                           count(k, {".."}) > k - count(k, {"..", "."})
        THEN None
        ELSE Some(name.path)

\* Connection::open(path) with the default flags: a missing file is created
\* as an empty database; the database at path, or the error of the first
\* statement on a file that holds none
Connection_open(f, path) ==
    LET cannot == Err("Sqlite", "unable to open database file")
        open(created) == IF IsOk(created.res)
                         THEN [res |-> Ok(EmptyDatabase({})), fs |-> created.fs]
                         ELSE [res |-> cannot, fs |-> f]
    IN  IF path \notin DOMAIN f
        THEN open(File_create(f, path, [t |-> "db", db |-> EmptyDatabase({})]))
        ELSE IF f[path].dir THEN [res |-> cannot, fs |-> f]
        ELSE IF f[path].data.t # "db"
        THEN [res |-> Err("Sqlite", "file is not a database"), fs |-> f]
        ELSE [res |-> Ok(f[path].data.db), fs |-> f]

-----------------------------------------------------------------------------
(* Apkg (apkg.rs).  A key of the media index is the relative path it       *)
(* spells, a sequence of components.                                       *)

\* (a variant that takes only an object for a media index)
load_media_Mutant(f, path) ==
    IF path \in DOMAIN f /\ f[path].data.t = "json" /\ is_object(f[path].data.j)
    THEN Ok(<<>>)
    ELSE Err("Document", "Media JSON is not an object")

\* load_media(path)
load_media(f, path) ==
    LET dir == SubSeq(path, 1, Len(path) - 1)
        json == json_parse(f[path].data)
        named == SelectSeq(entries(json.val), LAMBDA e : is_str(e.v))
    IN  IF path \notin DOMAIN f THEN Err("NotFound", "fs::read_to_string")
        ELSE IF f[path].dir THEN Err("IsADirectory", "fs::read_to_string")
        ELSE IF f[path].data.t \notin {"json", "notjson"}
        THEN Err("InvalidData", "fs::read_to_string")
        ELSE IF ~IsOk(json) THEN Panic("Media JSON is not JSON")
        ELSE IF ~is_object(json.val) THEN Ok(<<>>)
        ELSE Ok([i \in DOMAIN named |->
                    [path |-> dir \o named[i].k, name |-> as_str(named[i].v)]])

\* save_media(path, media): the outcome and the file system after it
save_media(f, path, media) ==
    LET dir == SubSeq(path, 1, Len(path) - 1)
        removed == [p \in DOMAIN f \ {path} |-> f[p]]
        file_name(p) == IF p = <<>> \/ p[Len(p)] = ".." THEN None ELSE Some(p[Len(p)])
        RECURSIVE insert(_, _)
        insert(json, i) ==
            IF i > Len(media) THEN json
            ELSE insert(MapInsert(json, <<file_name(media[i].path).x>>,
                                  JStr(media[i].name)), i + 1)
        created == File_create(removed, path, json_stringify(insert(JMap(<<>>), 1)))
    IN  IF path \notin DOMAIN f
        THEN [res |-> Err("NotFound", "fs::remove_file"), fs |-> f]
        ELSE IF f[path].dir
        THEN [res |-> Err("IsADirectory", "fs::remove_file"), fs |-> f]
        ELSE IF f[dir].mode = "ro"
        THEN [res |-> Err("PermissionDenied", "fs::remove_file"), fs |-> f]
        ELSE IF \E i \in DOMAIN media : ~file_name(media[i].path).some
        THEN [res |-> Panic("called Option::unwrap() on a None value"),
              fs |-> removed]
        ELSE created

\* one turn of the loop of Apkg::new over the entries of the archive: the
\* outcome and the file system after entry file was extracted into f
extract(f, file) ==
    LET outpath == enclosed_name(file.name)
        \* Path::join replaces the directory by an absolute path
        dir == IF file.name.abs THEN <<>> ELSE tempdir
        path == join(dir, outpath.x)
        p == SubSeq(outpath.x, 1, Len(outpath.x) - 1)
        exists == \A k \in 0..Len(p) : join(dir, SubSeq(p, 1, k)) \in DOMAIN f
        create(parent) ==
            IF IsOk(parent.res) THEN File_create(parent.fs, path, file.data) ELSE parent
        set_permissions(outfile) ==
            IF ~IsOk(outfile.res) \/ ~file.unix_mode.some THEN outfile
            ELSE [res |-> Ok(path), fs |-> [outfile.fs EXCEPT ![path].mode = file.unix_mode.x]]
    IN  IF ~file.ok THEN [res |-> Err("Other", "zip::ZipArchive::by_index"), fs |-> f]
        ELSE IF ~outpath.some THEN [res |-> Ok(file.name), fs |-> f]
        ELSE IF file.name.slash THEN set_permissions(create_dir_all(f, dir, outpath.x))
        ELSE IF exists THEN set_permissions(create([res |-> Ok(p), fs |-> f]))
        ELSE set_permissions(create(create_dir_all(f, dir, p)))

\* the loop, from entry i on: the first error ends it
RECURSIVE extract_all(_, _, _)
extract_all(f, zip, i) ==
    LET next(file) == IF IsOk(file.res) THEN extract_all(file.fs, zip, i + 1) ELSE file
    IN  IF i > Len(zip) THEN [res |-> Ok(i), fs |-> f] ELSE next(extract(f, zip[i]))

\* Apkg::new(path): the outcome, the file system once the entries were
\* extracted (when they were), the file system as the function returns, and
\* the file system after the values it leaves behind were dropped.  An
\* error or an unwinding panic drops the TempDir.
Apkg_new(f, file) ==
    LET dir == (tempdir :> [dir |-> TRUE, mode |-> "rw", data |-> [t |-> "dir"]]) @@ f
        db_path == join(tempdir, <<"collection.anki2">>)
        media_path == join(tempdir, <<"media">>)
        return(res, extracted, at) ==
            [res |-> res, extracted |-> extracted, left |-> at,
             fs |-> IF IsOk(res) THEN at ELSE remove_dir_all(at, tempdir)]
        apkg_of(extracted, at, collection, media) ==
            IF collection.tag = "Err"
            THEN return(Err("Other", collection.msg), Some(extracted), at)
            ELSE IF collection.tag = "Panic" THEN return(collection, Some(extracted), at)
            ELSE IF ~IsOk(media) THEN return(media, Some(extracted), at)
            ELSE return(Ok([dir |-> tempdir, db_path |-> db_path, media_path |-> media_path,
                            collection |-> collection.val, media |-> media.val]),
                        Some(extracted), at)
        load(extracted, conn) ==
            apkg_of(extracted, conn.fs,
                    IF IsOk(conn.res) THEN Collection_new(conn.res.val) ELSE conn.res,
                    load_media(conn.fs, media_path))
        open(extracted) ==
            IF IsOk(extracted.res)
            THEN load(extracted.fs, Connection_open(extracted.fs, db_path))
            ELSE return(extracted.res, None, extracted.fs)
    IN  IF file.tag = "missing"
        THEN [res |-> Err("NotFound", "fs::File::open"), extracted |-> None, left |-> f, fs |-> f]
        ELSE IF file.tag = "notzip"
        THEN [res |-> Err("Other", "zip::ZipArchive::new"), extracted |-> None, left |-> f, fs |-> f]
        ELSE open(extract_all(dir, file.zip, 1))

\* Apkg::save(self, path): the outcome, the file system as the function
\* returns, and the file system after self, and with it the TempDir, was
\* dropped
Apkg_save(f, self, path) ==
    LET return(res, at) ==
            [res |-> res, left |-> at, fs |-> remove_dir_all(at, self.dir)]
        \* fs::read_dir(dir): the entries of the directory, in no given order
        read_dir(at) == {q \in DOMAIN at : Len(q) = Len(self.dir) + 1
                                           /\ SubSeq(q, 1, Len(self.dir)) = self.dir}
        zip(at) == [t |-> "zip", finished |-> TRUE,
                    files |-> {[name |-> q[Len(q)], data |-> at[q].data] : q \in read_dir(at)}]
        write(stored, file) ==
            IF ~IsOk(file.res) THEN return(file.res, stored)
            ELSE IF \E q \in read_dir(stored) : stored[q].dir
            THEN return(Err("IsADirectory", "fs::read"), file.fs)
            ELSE return(Ok(path), [file.fs EXCEPT ![path].data = zip(stored)])
        archive_of(stored) ==
            write(stored, File_create(stored, path, [t |-> "zip", finished |-> FALSE]))
        store(at, collection) ==
            IF IsOk(collection.res)
            THEN archive_of([at EXCEPT ![self.db_path].data = [t |-> "db", db |-> collection.conn]])
            ELSE return(Err("Other", collection.res.msg),
                        [at EXCEPT ![self.db_path].data = [t |-> "db", db |-> collection.conn]])
        save(conn) ==
            IF IsOk(conn.res)
            THEN store(conn.fs, Collection_save(self.collection, conn.res.val))
            ELSE return(Err("Other", conn.res.msg), conn.fs)
        open(media) ==
            IF IsOk(media.res) THEN save(Connection_open(media.fs, self.db_path))
            ELSE return(media.res, media.fs)
    IN  open(save_media(f, self.media_path, self.media))

-----------------------------------------------------------------------------
(* SpecApkg: an archive is opened with Apkg::new; the container it yields  *)
(* is dropped, or saved to a path with Apkg::save.                         *)

\* archives of up to MaxExtras entries besides the database and the index
MaxExtras == 2

\* the files at the path given to Apkg::new: none, a file that is no zip
\* archive, or an archive.  An entry has a name (absolute or relative, its
\* components, a trailing slash for a directory), a readable or corrupt
\* header, a content, and the unix mode when the archive records one.
Archives ==
    LET entry(path, data) ==
            [name |-> [abs |-> FALSE, path |-> path, slash |-> FALSE], ok |-> TRUE,
             data |-> data, unix_mode |-> None]
        directory(path, mode) ==
            [entry(path, [t |-> "dir"]) EXCEPT !.name.slash = TRUE, !.unix_mode = mode]
        bytes == [t |-> "bytes"]
        \* the database of a collection with one row in each table
        GoodDatabase ==
            Database(Rows("col", 1), Rows("cards", 1), Rows("notes", 1), Rows("revlog", 1),
                     Rows("graves", 1))
        database(d) == entry(<<"collection.anki2">>, [t |-> "db", db |-> d])
        index(es) == entry(<<"media">>, JsonText(JMap(es)))
        dbs == {<<>>, <<database(GoodDatabase)>>,
                <<database([GoodDatabase EXCEPT !.rows.col[1].conf = SqlText(NotJson)])>>,
                <<database(EmptyDatabase(DOMAIN AnkiColumns \ {"col"}))>>,
                <<entry(<<"collection.anki2">>, bytes)>>}
        medias == {<<>>, <<entry(<<"media">>, NotJson)>>, <<entry(<<"media">>, bytes)>>,
                   <<entry(<<"media">>, JsonText(JArr(<<>>)))>>,
                   <<entry(<<"media">>, JsonText(JNull))>>,
                   <<entry(<<"media">>, JsonText(JInt(1)))>>,
                   <<index(<<>>)>>,
                   <<index(<<Entry(<<"0">>, JStr("a.mp3"))>>)>>,
                   <<index(<<Entry(<<"0">>, JStr("a.mp3")), Entry(<<"1">>, JStr("a.mp3"))>>)>>,
                   <<index(<<Entry(<<"0">>, JStr("a.mp3")), Entry(<<"1">>, JInt(1))>>)>>,
                   <<index(<<Entry(<<"sub", "0">>, JStr("a.mp3"))>>)>>,
                   <<index(<<Entry(<<"0">>, JStr("a.mp3")), Entry(<<"sub", "0">>, JStr("b.mp3"))>>)>>,
                   <<index(<<Entry(<<"..">>, JStr("a.mp3"))>>)>>}
        extras == {entry(<<"0">>, bytes), entry(<<"sub", "0">>, bytes),
                   entry(<<"sub", "..", "1">>, bytes),
                   directory(<<"sub">>, None), directory(<<"sub">>, Some("ro")),
                   entry(<<"..", "evil">>, bytes),
                   [entry(<<"etc", "evil">>, bytes) EXCEPT !.name.abs = TRUE],
                   [entry(<<"1">>, bytes) EXCEPT !.ok = FALSE]}
        plain == {<<>>, <<database(GoodDatabase)>>} \X {<<>>, <<index(<<Entry(<<"0">>, JStr("a.mp3"))>>)>>}
    IN  {[tag |-> "missing"], [tag |-> "notzip"]}
        \cup {[tag |-> "zip", zip |-> d \o m] : d \in dbs, m \in medias}
        \cup {[tag |-> "zip", zip |-> x \o dm[1] \o dm[2]] :
                x \in SeqsUpTo(extras, MaxExtras), dm \in plain}

InitApkg ==
    /\ archive \in Archives
    /\ fs = [p \in {<<>>, <<"tmp">>} |-> [dir |-> TRUE, mode |-> "rw", data |-> [t |-> "dir"]]]
    /\ apkg = Idle /\ closed = Idle
    /\ eop = Idle /\ doc = Idle /\ parsed = Idle /\ emitted = Idle /\ reparsed = Idle
    /\ db = Idle /\ fresh = Idle /\ loaded = Idle /\ saved = Idle /\ reloaded = Idle

\* Apkg::new(path)
New ==
    /\ apkg.tag = "Idle"
    /\ LET new == Apkg_new(fs, archive)
       IN  /\ apkg' = [tag |-> "Done", res |-> new.res, extracted |-> new.extracted,
                       left |-> new.left]
           /\ fs' = new.fs
    /\ UNCHANGED <<archive, closed>>
    /\ UNCHANGED <<varsEnum, varsDoc, varsColl>>

\* the container goes out of scope
Drop ==
    /\ apkg.tag = "Done" /\ IsOk(apkg.res) /\ closed.tag = "Idle"
    /\ closed' = [tag |-> "Dropped"]
    /\ fs' = remove_dir_all(fs, apkg.res.val.dir)
    /\ UNCHANGED <<archive, apkg>>
    /\ UNCHANGED <<varsEnum, varsDoc, varsColl>>

\* apkg.save(path), to a path in an existing or in a missing directory
SaveTo(path) ==
    /\ apkg.tag = "Done" /\ IsOk(apkg.res) /\ closed.tag = "Idle"
    /\ LET save == Apkg_save(fs, apkg.res.val, path)
       IN  /\ closed' = [tag |-> "Saved", path |-> path, res |-> save.res, left |-> save.left]
           /\ fs' = save.fs
    /\ UNCHANGED <<archive, apkg>>
    /\ UNCHANGED <<varsEnum, varsDoc, varsColl>>

NextApkg ==
    \/ New
    \/ Drop
    \/ \E path \in {<<"out.apkg">>, <<"out", "out.apkg">>} : SaveTo(path)

SpecApkg == InitApkg /\ [][NextApkg]_vars

-----------------------------------------------------------------------------
(* Claims about the Enum Codec.                                            *)

\* C3: for each of the seven From/Into enums and every variant v, decoding the
\* integer produced by encoding v yields v.
C3_EnumRoundTrip ==
    (eop.tag = "Enum" /\ eop.op = "roundtrip") => eop.v = eop.src

C3_Witness ==
    /\ eop.tag = "Enum" /\ eop.op = "roundtrip"
    /\ eop.enum = "CardQueue" /\ eop.src = "Preview" /\ eop.v = "Preview"

\* C4: encoding ReviewAnswer Hard with wasReviewCard = false fails with a
\* validation error: it returns no integer code, and never code 1.
C4_HardNonReviewFails ==
    (eop.tag = "Enum" /\ eop.op = "rev_into" /\ eop.v = "Hard" /\ ~eop.flag)
        => (eop.out = "error" /\ eop.i # 1)

\* C5: every (answer, wasReviewCard) other than (Hard, false) round-trips, and
\* the codes are 1 Wrong, 2 Hard, 3 OK, 4 Easy for a review card and
\* 1 Wrong, 2 OK, 3 Easy otherwise.
ReviewCodeTable(is_review) ==
    IF is_review
    THEN [a \in {"Wrong", "Hard", "OK", "Easy"} |->
            CASE a = "Wrong" -> 1 [] a = "Hard" -> 2 [] a = "OK" -> 3 [] a = "Easy" -> 4]
    ELSE [a \in {"Wrong", "OK", "Easy"} |->
            CASE a = "Wrong" -> 1 [] a = "OK" -> 2 [] a = "Easy" -> 3]

C5_ReviewAnswerRoundTrip ==
    /\ (eop.tag = "Enum" /\ eop.op = "rev_roundtrip" /\ ~(eop.src = "Hard" /\ ~eop.flag))
          => eop.v = eop.src
    /\ (eop.tag = "Enum" /\ eop.op = "rev_into" /\ ~(eop.v = "Hard" /\ ~eop.flag))
          => eop.i = ReviewCodeTable(eop.flag)[eop.v]
    /\ (eop.tag = "Enum" /\ eop.op = "rev_from"
        /\ \E a \in DOMAIN ReviewCodeTable(eop.flag) : ReviewCodeTable(eop.flag)[a] = eop.i)
          => ReviewCodeTable(eop.flag)[eop.v] = eop.i

C5_Witness ==
    /\ eop.tag = "Enum" /\ eop.op = "rev_roundtrip"
    /\ eop.src = "Easy" /\ ~eop.flag /\ eop.i = 3 /\ eop.v = "Easy"

\* C6: decoding is total and follows the documented tables: every listed code
\* decodes to its listed variant, every other integer to the enum's default.
DocumentedCodes(e) ==
    CASE e = "CardType" ->
            (0 :> "New" @@ 1 :> "Learning" @@ 2 :> "Review" @@ 3 :> "Relearning")
      [] e = "CardQueue" ->
            ((0 - 3) :> "UserBuried" @@ (0 - 2) :> "Buried" @@ (0 - 1) :> "Suspended"
             @@ 0 :> "New" @@ 1 :> "Learning" @@ 2 :> "Review" @@ 3 :> "InLearning"
             @@ 4 :> "Preview")
      [] e = "ModelType" -> (0 :> "Standard" @@ 1 :> "Cloze")
      [] e = "LeechAction" -> (0 :> "Suspend" @@ 1 :> "Mark")
      [] e = "NewOrder" -> (0 :> "Random" @@ 1 :> "Due")
      [] e = "NewSpread" -> (0 :> "Distribute" @@ 1 :> "Last" @@ 2 :> "First")
      [] e = "GraveType" -> (0 :> "Card" @@ 1 :> "Note" @@ 2 :> "Deck")

DocumentedDefault(e) ==
    CASE e = "CardType" -> "New"
      [] e = "CardQueue" -> "New"
      [] e = "ModelType" -> "Standard"
      [] e = "LeechAction" -> "Suspend"
      [] e = "NewOrder" -> "Random"
      [] e = "NewSpread" -> "Distribute"
      [] e = "GraveType" -> "Card"

C6_DecodeTotal ==
    (eop.tag = "Enum" /\ eop.op = "from") =>
        /\ eop.out = "value"
        /\ eop.v = IF eop.i \in DOMAIN DocumentedCodes(eop.enum)
                   THEN DocumentedCodes(eop.enum)[eop.i]
                   ELSE DocumentedDefault(eop.enum)

C6_Witness ==
    /\ eop.tag = "Enum" /\ eop.op = "from"
    /\ eop.enum = "GraveType" /\ eop.i = 3 /\ eop.v = "Card"

-----------------------------------------------------------------------------
(* Claims about the Config Document Codec.                                 *)

\* C7: for every Decks document accepted by Deck::parse, the serialized decks
\* are accepted by Deck::parse and equal the first parse in every field.
C7_DeckRoundTrip ==
    (doc.kind = "Deck" /\ IsOk(parsed) /\ reparsed.tag # "Idle") =>
        (IsOk(reparsed) /\ reparsed.val = parsed.val)


\* C8: for every SyncConfig text accepted by SyncConfig::new, the serialized
\* value is accepted by SyncConfig::new and equals the first parse in every
\* field, including new_spread and active_cols.
C8_SyncRoundTrip ==
    (doc.kind = "SyncConfig" /\ IsOk(parsed) /\ reparsed.tag # "Idle") =>
        /\ IsOk(reparsed)
        /\ reparsed.val.new_spread = parsed.val.new_spread
        /\ reparsed.val.active_cols = parsed.val.active_cols
        /\ reparsed.val = parsed.val


\* C9: for every Models document accepted by Model::parse, the serialized
\* document has, for each model, the same decimal-string key and the same
\* nested content as the input: the same ordered field definitions under
\* flds, the same templates under tmpls and the same triples under req.
C9_ModelContentPreserved ==
    (doc.kind = "Model" /\ IsOk(parsed) /\ emitted.tag = "Text") =>
        /\ Len(emitted.text.j.m) = Len(doc.text.j.m)
        /\ \A k \in DOMAIN doc.text.j.m :
            /\ emitted.text.j.m[k].k = doc.text.j.m[k].k
            /\ Get(emitted.text.j.m[k].v, "flds") = Get(doc.text.j.m[k].v, "flds")
            /\ Get(emitted.text.j.m[k].v, "tmpls") = Get(doc.text.j.m[k].v, "tmpls")
            /\ Get(emitted.text.j.m[k].v, "req") = Get(doc.text.j.m[k].v, "req")

\* the text s in lower case
RECURSIVE LowerCase(_)
LowerCase(s) ==
    LET upper == [A |-> "a", B |-> "b", C |-> "c", D |-> "d", E |-> "e", F |-> "f",
                  G |-> "g", H |-> "h", I |-> "i", J |-> "j", K |-> "k", L |-> "l",
                  M |-> "m", N |-> "n", O |-> "o", P |-> "p", Q |-> "q", R |-> "r",
                  S |-> "s", T |-> "t", U |-> "u", V |-> "v", W |-> "w", X |-> "x",
                  Y |-> "y", Z |-> "z"]
        c == SubSeq(s, 1, 1)
    IN  IF Len(s) = 0 THEN ""
        ELSE (IF c \in DOMAIN upper THEN upper[c] ELSE c) \o LowerCase(SubSeq(s, 2, Len(s)))

\* the message has the key among its words, in letters of either case
NamesField(msg, key) ==
    LET text == " " \o LowerCase(msg) \o " "
        word == " " \o LowerCase(key) \o " "
    IN  \E i \in 1..(Len(text) - Len(word) + 1) : SubSeq(text, i, i + Len(word) - 1) = word

\* the keys each structure has to have: those its constructor tests, or has
\* a message for, and takes no default for
RequiredFields ==
    [Model |-> {"css", "id", "latexPre", "latexPost", "mod", "name", "sortf", "type", "usn",
                "tmpls"},
     Template |-> {"afmt", "bafmt", "bqfmt", "qfmt", "name", "ord"},
     Deck |-> {"name", "usn", "collapsed", "browserCollapsed", "dyn", "conf", "id", "mod",
               "desc", "newToday", "lrnToday", "revToday"},
     DeckConfig |-> {"autoplay", "dyn", "maxTaken", "mod", "name", "replayq", "timer", "usn",
                     "lapse", "new", "rev"},
     lapse |-> {"leechAction", "leechFails", "minInt", "mult", "delays"},
     new |-> {"bury", "initialFactor", "order", "perDay", "delays", "ints"},
     rev |-> {"bury", "ease4", "ivlFct", "maxIvl", "perDay"},
     SyncConfig |-> {"curDeck", "newSpread", "collapseTime", "timeLim", "estTimes",
                     "dueCounts", "curModel", "nextPos", "sortBackwards", "addToCur",
                     "dayLearnFirst", "activeDecks"}]

\* the required key at which obj is not as the well-formed base is, when
\* there is one such key: the key is missing, or its value of another type
Defects(obj, base, required) ==
    {k \in required : /\ k \notin DOMAIN obj \/ obj[k].t # base[k].t
                      /\ Without(obj, k) = Without(base, k)}

\* C20: a document in which one required field of a Model, Template, Deck,
\* DeckConfig, sub-policy or SyncConfig is missing or of another type fails
\* to parse, with an error whose message names that field.
C20_ErrorNamesField ==
    LET named(keys) == \A k \in keys : parsed.tag = "Err" /\ NamesField(parsed.msg, k)
        \* one entry, an object under a key that is an id
        single == /\ doc.text.t = "json" /\ doc.text.j.t = "map"
                  /\ Len(doc.text.j.m) = 1 /\ doc.text.j.m[1].v.t = "obj"
                  /\ IsOk(ParseI64(doc.text.j.m[1].k))
        obj == doc.text.j.m[1].v.o
        \* obj is the base but for the object it has at key s
        within(base, s) == /\ s \in DOMAIN obj
                           /\ Without(obj, s) = Without(base, s)
        template == obj.tmpls.a[1]
    IN  parsed.tag # "Idle" =>
            /\ (doc.kind = "SyncConfig" /\ doc.text.t = "json" /\ doc.text.j.t = "obj") =>
                  named(Defects(doc.text.j.o, BaseSync, RequiredFields.SyncConfig))
            /\ (doc.kind = "Deck" /\ single) =>
                  named(Defects(obj, BaseDeck, RequiredFields.Deck))
            /\ (doc.kind = "Model" /\ single) =>
                  named(Defects(obj, BaseModel, RequiredFields.Model))
            /\ (doc.kind = "Model" /\ single /\ within(BaseModel, "tmpls")
                    /\ obj.tmpls.t = "arr" /\ Len(obj.tmpls.a) = 1 /\ template.t = "obj") =>
                  named(Defects(template.o, BaseModel.tmpls.a[1].o, RequiredFields.Template))
            /\ (doc.kind = "DeckConfig" /\ single) =>
                  named(Defects(obj, BaseDeckConfig, RequiredFields.DeckConfig))
            /\ \A s \in {"lapse", "new", "rev"} :
                  (doc.kind = "DeckConfig" /\ single /\ within(BaseDeckConfig, s)
                      /\ obj[s].t = "obj") =>
                      named(Defects(obj[s].o, BaseDeckConfig[s].o, RequiredFields[s]))

-----------------------------------------------------------------------------
(* Claims about the Collection Loader and Saver.                           *)

\* C1: for a database that Collection::new loads, saving the collection to a
\* fresh database succeeds, and loading that database again yields a
\* collection equal to the first in every field.
C1_SaveReloadEqual ==
    (IsOk(loaded) /\ saved.tag = "Done" /\ saved.target = "fresh") =>
        /\ IsOk(saved.res)
        /\ reloaded.tag # "Idle" => (IsOk(reloaded) /\ reloaded.val = loaded.val)

\* C2: when Collection::save returns an error, the database at the path
\* holds exactly the rows it held before the call.
C2_SaveAtomic ==
    (saved.tag = "Done" /\ ~IsOk(saved.res)) => At(saved.target).rows = saved.before.rows

\* a save on a database that holds rows in every table has returned an error
C2_Witness ==
    /\ saved.tag = "Done" /\ ~IsOk(saved.res)
    /\ \A t \in DOMAIN AnkiColumns : saved.before.rows[t] # <<>>

\* C10: when the database holds a col row whose cells or JSON documents
\* cannot be decoded, or a card, note, review-log or grave row that cannot be
\* converted, Collection::new returns an error and does not abort.
C10_DecodeFailureIsErr ==
    LET undecodable ==
            /\ db.schema = DOMAIN AnkiColumns /\ db.rows.col # <<>>
            /\ \/ db.rows.col[1] \in UndecodableCols.cells \cup UndecodableCols.documents
               \/ \E t \in DOMAIN AnkiColumns \ {"col"} : \E k \in DOMAIN db.rows[t] :
                      db.rows[t][k] \in UndecodableRows[t]
    IN  (loaded.tag # "Idle" /\ saved.tag = "Idle" /\ undecodable) => loaded.tag = "Err"


-----------------------------------------------------------------------------
(* Claims about the Archive Container.                                     *)

\* C11: when the workspace lacks collection.anki2 or media once the entries
\* were extracted, Apkg::new returns an error of a kind of its own, "missing
\* required entry", and the missing file has not been created.
C11_MissingEntryError ==
    LET required == {join(tempdir, <<"collection.anki2">>), join(tempdir, <<"media">>)}
    IN  (apkg.tag = "Done" /\ apkg.extracted.some
            /\ required \ DOMAIN apkg.extracted.x # {}) =>
            /\ apkg.res.tag = "Err" /\ apkg.res.kind = "MissingEntry"
            /\ (required \ DOMAIN apkg.extracted.x) \cap DOMAIN apkg.left = {}

\* C12: whatever the entries of the archive, every file and directory that
\* exists when Apkg::new returns was there before or is inside the
\* workspace directory.
C12_ExtractionConfined ==
    apkg.tag = "Done" =>
        \A p \in DOMAIN apkg.left :
            \/ p \in {<<>>, <<"tmp">>}
            \/ Len(p) >= Len(tempdir) /\ SubSeq(p, 1, Len(tempdir)) = tempdir

\* an archive with an entry whose path leaves the workspace was extracted to
\* the end
C12_Witness ==
    /\ apkg.tag = "Done" /\ apkg.extracted.some
    /\ \E i \in DOMAIN archive.zip : archive.zip[i].name.path = <<"..", "evil">>
    /\ \E i \in DOMAIN archive.zip : archive.zip[i].name.abs

\* C13: an archive with an entry whose stored path resolves outside the
\* workspace makes Apkg::new fail with a MalformedArchive error.
C13_UnsafeEntryRejected ==
    (apkg.tag = "Done" /\ archive.tag = "zip"
        /\ \E i \in DOMAIN archive.zip : ~enclosed_name(archive.zip[i].name).some) =>
        apkg.res.tag = "Err" /\ apkg.res.kind = "MalformedArchive"

\* C14: once Apkg::new has failed, or the container was dropped, or
\* Apkg::save has returned, the workspace directory no longer exists.
C14_WorkspaceDeleted ==
    ((apkg.tag = "Done" /\ ~IsOk(apkg.res)) \/ closed.tag # "Idle") =>
        tempdir \notin DOMAIN fs

\* C15: a container that was opened and saved at once to a path in an
\* existing directory is saved with success; the archive written has the
\* top-level entry names of the archive opened, and its database and media
\* index entries hold what those of the archive opened hold.
C15_RepackPreserves ==
    LET names == {archive.zip[i].name.path[1] : i \in DOMAIN archive.zip}
        data(name) == {archive.zip[i].data : i \in {j \in DOMAIN archive.zip :
                                                     archive.zip[j].name.path = <<name>>}}
        out == fs[closed.path].data
    IN  (closed.tag = "Saved" /\ closed.path = <<"out.apkg">>) =>
            /\ IsOk(closed.res)
            /\ closed.path \in DOMAIN fs /\ out.t = "zip" /\ out.finished
            /\ {file.name : file \in out.files} = names
            /\ \A file \in out.files :
                  file.name \in {"collection.anki2", "media"} => file.data \in data(file.name)

\* C16: when Apkg::save returns an error, no file exists at the path it was
\* to write the archive to.
C16_FailedSaveLeavesNoArchive ==
    (closed.tag = "Saved" /\ ~IsOk(closed.res)) => closed.path \notin DOMAIN fs

\* Apkg::save failed after the media index was written back, in a workspace
\* that holds a directory
C16_Witness ==
    /\ closed.tag = "Saved" /\ closed.res.tag = "Err" /\ closed.res.kind = "Other"
    /\ \E p \in DOMAIN closed.left : Len(p) = Len(tempdir) + 1 /\ closed.left[p].dir
                                     /\ SubSeq(p, 1, Len(tempdir)) = tempdir

\* C17: when the media index is JSON that is no object and the collection
\* loads, Apkg::new succeeds and the container has no media entries.
C17_NonObjectIndexIsEmpty ==
    LET media_path == join(tempdir, <<"media">>)
        at == apkg.extracted.x
        conn == Connection_open(at, join(tempdir, <<"collection.anki2">>))
    IN  (apkg.tag = "Done" /\ apkg.extracted.some /\ media_path \in DOMAIN at
            /\ at[media_path].data.t = "json" /\ ~is_object(at[media_path].data.j)
            /\ IsOk(conn.res) /\ IsOk(Collection_new(conn.res.val))) =>
            IsOk(apkg.res) /\ apkg.res.val.media = <<>>

\* a container was opened from an archive whose media index is an array
C17_Witness ==
    /\ apkg.tag = "Done" /\ IsOk(apkg.res)
    /\ apkg.extracted.x[apkg.res.val.media_path].data = JsonText(JArr(<<>>))

\* C18: when the media index is no JSON and the collection loads, Apkg::new
\* returns an error of the document kind.
C18_InvalidIndexIsDocumentError ==
    LET media_path == join(tempdir, <<"media">>)
        at == apkg.extracted.x
        conn == Connection_open(at, join(tempdir, <<"collection.anki2">>))
    IN  (apkg.tag = "Done" /\ apkg.extracted.some /\ media_path \in DOMAIN at
            /\ at[media_path].data.t = "notjson"
            /\ IsOk(conn.res) /\ IsOk(Collection_new(conn.res.val))) =>
            apkg.res.tag = "Err" /\ apkg.res.kind = "Document"

\* C19: for a media index that is an object of strings, the container has
\* one media entry per key, in the order of the keys, named by the value and
\* at the workspace directory joined with the key; and the index Apkg::save
\* writes back has the same pairs of key and value.
C19_MediaIndexRoundTrip ==
    LET at == apkg.extracted.x
        self == apkg.res.val
        index == at[self.media_path].data
        pairs(es) == {<<es[i].k, es[i].v.s>> : i \in DOMAIN es}
        back == closed.left[self.media_path].data
    IN  (apkg.tag = "Done" /\ IsOk(apkg.res) /\ index.t = "json" /\ index.j.t = "map"
            /\ \A i \in DOMAIN index.j.m : is_str(index.j.m[i].v)) =>
            /\ Len(self.media) = Len(index.j.m)
            /\ \A i \in DOMAIN index.j.m :
                  self.media[i] = [path |-> self.dir \o index.j.m[i].k,
                                   name |-> index.j.m[i].v.s]
            /\ closed.tag = "Saved" =>
                  /\ self.media_path \in DOMAIN closed.left
                  /\ back.t = "json" /\ back.j.t = "map"
                  /\ pairs(back.j.m) = pairs(index.j.m)

-----------------------------------------------------------------------------
(* Claims about the fields of Model, Deck and SyncConfig documents.        *)

\* one entry, an object, under a key that is an id
SingleEntry ==
    /\ doc.text.t = "json" /\ doc.text.j.t = "map"
    /\ Len(doc.text.j.m) = 1 /\ doc.text.j.m[1].v.t = "obj"
    /\ IsOk(ParseI64(doc.text.j.m[1].k))

\* the object of the one entry
EntryObject == doc.text.j.m[1].v.o

\* a model object with every required field, each of the type Model::new
\* asks for, every template complete, and a did that is no undecodable text
CompleteModel(obj) ==
    /\ \A k \in RequiredFields.Model : k \in DOMAIN obj /\ obj[k].t = BaseModel[k].t
    /\ \A i \in DOMAIN obj.tmpls.a :
          /\ obj.tmpls.a[i].t = "obj"
          /\ \A k \in RequiredFields.Template :
                /\ k \in DOMAIN obj.tmpls.a[i].o
                /\ obj.tmpls.a[i].o[k].t = BaseModel.tmpls.a[1].o[k].t
    /\ ("did" \in DOMAIN obj /\ is_str(obj.did)) => IsOk(ParseI64(obj.did.cs))

\* C21: a Model object that has every required field and no req key parses
\* with req = None, and the serialized model has no req key.
C21_AbsentReqIsNone ==
    (doc.kind = "Model" /\ SingleEntry /\ CompleteModel(EntryObject)
        /\ "req" \notin DOMAIN EntryObject) =>
        /\ parsed.tag # "Idle" => (IsOk(parsed) /\ parsed.val[1].req = None)
        /\ emitted.tag = "Text" => "req" \notin DOMAIN emitted.text.j.m[1].v.o

C21_Witness ==
    /\ doc.kind = "Model" /\ SingleEntry /\ CompleteModel(EntryObject)
    /\ "req" \notin DOMAIN EntryObject
    /\ IsOk(parsed) /\ parsed.val[1].req = None
    /\ emitted.tag = "Text" /\ "tmpls" \in DOMAIN emitted.text.j.m[1].v.o

\* a (today, total) pair of integers
IsPair(j) == j.t = "arr" /\ Len(j.a) = 2 /\ \A i \in 1..2 : j.a[i].t = "int"

\* a deck object with every required field, each of the type Deck::new asks
\* for, the three pairs included
CompleteDeck(obj) ==
    /\ \A k \in RequiredFields.Deck : k \in DOMAIN obj /\ obj[k].t = BaseDeck[k].t
    /\ \A k \in {"newToday", "lrnToday", "revToday"} : IsPair(obj[k])

\* C22: a complete Deck object without the extended_rev key parses with
\* extended_review_limit = 10, one without the extendNew key parses with
\* extended_new_limit = 10, and a key that is there with an integer gives
\* the limit that integer.
C22_LimitDefaults ==
    LET limit(key) == IF key \in DOMAIN EntryObject /\ is_i64(EntryObject[key])
                      THEN as_i64(EntryObject[key]) ELSE 10
    IN  (doc.kind = "Deck" /\ SingleEntry /\ CompleteDeck(EntryObject)
            /\ parsed.tag # "Idle") =>
            /\ IsOk(parsed)
            /\ parsed.val[1].extended_review_limit = limit("extended_rev")
            /\ parsed.val[1].extended_new_limit = limit("extendNew")

C22_Witness ==
    /\ doc.kind = "Deck" /\ SingleEntry /\ CompleteDeck(EntryObject)
    /\ "extended_rev" \notin DOMAIN EntryObject
    /\ Get(doc.text.j.m[1].v, "extendNew") = JInt(7)
    /\ IsOk(parsed)
    /\ parsed.val[1].extended_review_limit = 10
    /\ parsed.val[1].extended_new_limit = 7

\* a SyncConfig object with every required field, each of the type
\* SyncConfig::new asks for, and only numbers in activeDecks
CompleteSync(obj) ==
    /\ \A k \in RequiredFields.SyncConfig : k \in DOMAIN obj /\ obj[k].t = BaseSync[k].t
    /\ \A i \in DOMAIN obj.activeDecks.a : obj.activeDecks.a[i].t = "int"

\* C23: SyncConfig::new gives active_cols the entries noteFld, template,
\* cardDue, deck, in that order, when activeCols is absent or null; the
\* strings listed, when it is an array of strings; and fails when it is
\* any other value, or an array with a member that is no string.
C23_ActiveCols ==
    LET obj == doc.text.j.o
        cols == Get(doc.text.j, "activeCols")
        strings == cols.t = "arr" /\ \A i \in DOMAIN cols.a : cols.a[i].t = "str"
    IN  (doc.kind = "SyncConfig" /\ doc.text.t = "json" /\ doc.text.j.t = "obj"
            /\ CompleteSync(obj) /\ parsed.tag # "Idle") =>
            /\ ("activeCols" \notin DOMAIN obj \/ cols = JNull) =>
                  /\ IsOk(parsed)
                  /\ parsed.val.active_cols = <<"noteFld", "template", "cardDue", "deck">>
            /\ strings =>
                  /\ IsOk(parsed)
                  /\ parsed.val.active_cols = [i \in DOMAIN cols.a |-> cols.a[i].s]
            /\ ("activeCols" \in DOMAIN obj /\ cols # JNull /\ ~strings) =>
                  parsed.tag = "Err"

C23_Witness ==
    /\ doc.kind = "SyncConfig" /\ doc.text.t = "json" /\ doc.text.j.t = "obj"
    /\ CompleteSync(doc.text.j.o)
    /\ Get(doc.text.j, "activeCols") = JArr(<<JStr("deck"), JStr("cardDue")>>)
    /\ IsOk(parsed)
    /\ parsed.val.active_cols = <<"deck", "cardDue">>

-----------------------------------------------------------------------------
(* Claims about the keyed collections and their members.                   *)

\* the key is a decimal integer: digits, after a sign or none
DecimalInteger(key) ==
    LET digits == {"0", "1", "2", "3", "4", "5", "6", "7", "8", "9"}
        body == IF key # <<>> /\ key[1] \in {"+", "-"} THEN Tail(key) ELSE key
    IN  body # <<>> /\ \A i \in DOMAIN body : body[i] \in digits

\* C24: Model::parse, Deck::parse and DeckConfig::parse return a parse
\* error, and no list of entities, when the text is not a JSON object and
\* when a top-level key is not a decimal integer, whatever entries come
\* before that key.
C24_BadTopLevelIsError ==
    LET top == doc.text.j
        notObject == doc.text.t = "notjson" \/ top.t # "map"
        badKey == /\ doc.text.t = "json" /\ top.t = "map"
                  /\ \E i \in DOMAIN top.m : ~DecimalInteger(top.m[i].k)
    IN  (doc.kind \in {"Model", "Deck", "DeckConfig"} /\ parsed.tag # "Idle"
            /\ (notObject \/ badKey)) =>
            /\ parsed.tag = "Err"
            /\ parsed.kind \in {"WrongType", "Syntax"}
            /\ "val" \notin DOMAIN parsed

\* a well-formed entry, then an entry under the key a
C24_Witness ==
    /\ doc.kind = "DeckConfig" /\ doc.text.t = "json" /\ doc.text.j.t = "map"
    /\ Len(doc.text.j.m) = 2
    /\ doc.text.j.m[1] = Entry(<<"1">>, JObj(BaseDeckConfig))
    /\ doc.text.j.m[2].k = <<"a">>
    /\ parsed = WrongType("Deck config key is not an id")

\* the position, counted from 0, at which Request::new has to fail on the
\* array x, or 3 when x is an integer, a string and an array of integers
FailingPosition(x) ==
    LET ints(l) == l.t = "arr" /\ \A i \in DOMAIN l.a : l.a[i].t = "int"
    IN  IF Len(x.a) < 1 \/ x.a[1].t # "int" THEN 0
        ELSE IF Len(x.a) < 2 \/ x.a[2].t # "str" THEN 1
        ELSE IF Len(x.a) < 3 \/ ~ints(x.a[3]) THEN 2
        ELSE 3

\* the message names the position: by its number, or by what stands there
NamesPosition(msg, p) ==
    LET names == <<{"0", "ordinal"}, {"1", "string"}, {"2", "list"}>>
    IN  \E w \in names[p + 1] : NamesField(msg, w)

\* C25: Request::new takes a requirement as (integer ordinal, mode string,
\* list of integers), by position; an array of fewer than 3 elements, an
\* element 0 that is no integer, an element 1 that is no string and an
\* element 2 that is no array of integers each fail with a parse error that
\* names the failing position; on success the three values are the three
\* elements.
C25_RequestPositional ==
    LET req == EntryObject.req
        first == CHOOSE i \in DOMAIN req.a :
                    /\ FailingPosition(req.a[i]) < 3
                    /\ \A j \in 1..(i - 1) : FailingPosition(req.a[j]) = 3
    IN  (doc.kind = "Model" /\ SingleEntry /\ "req" \in DOMAIN EntryObject
            /\ CompleteModel(Without(EntryObject, "req"))
            /\ req.t = "arr" /\ (\A i \in DOMAIN req.a : req.a[i].t = "arr")
            /\ parsed.tag # "Idle") =>
            IF \A i \in DOMAIN req.a : FailingPosition(req.a[i]) = 3
            THEN /\ IsOk(parsed)
                 /\ parsed.val[1].req.some
                 /\ Len(parsed.val[1].req.x) = Len(req.a)
                 /\ \A i \in DOMAIN req.a :
                       /\ parsed.val[1].req.x[i].ordinal = req.a[i].a[1].i
                       /\ parsed.val[1].req.x[i].string = req.a[i].a[2].s
                       /\ parsed.val[1].req.x[i].list =
                              [k \in DOMAIN req.a[i].a[3].a |-> req.a[i].a[3].a[k].i]
            ELSE /\ parsed.tag = "Err" /\ parsed.kind = "WrongType"
                 /\ NamesPosition(parsed.msg, FailingPosition(req.a[first]))

-----------------------------------------------------------------------------
(* Claims about the text columns of a note.                                *)

\* the number of places of the text that hold the character
Count(text, char) == Cardinality({i \in DOMAIN text : text[i] = char})

\* C26: the tags column is split at every single space, the empty entries
\* kept: a column with n spaces loads as n + 1 tags, none with a space in
\* it, so that k spaces in a row give k - 1 empty tags and a space at
\* either end an empty first or last tag; and Note::save_all, joining the
\* loaded tags with single spaces, writes the text of the column as it was.
C26_TagsRoundTrip ==
    LET text == db.rows.notes[1].tags.s
        tags == loaded.val.notes[1].tags
    IN  /\ IsOk(loaded) =>
              /\ Len(tags) = Count(text, " ") + 1
              /\ \A i \in DOMAIN tags : Count(tags[i], " ") = 0
              /\ (text # <<>> /\ Head(text) = " ") => tags[1] = <<>>
              /\ (text # <<>> /\ text[Len(text)] = " ") => tags[Len(tags)] = <<>>
              /\ \A i \in 1..(Len(text) - 1) :
                    (text[i] = " " /\ text[i + 1] = " ") =>
                        tags[Count(SubSeq(text, 1, i), " ") + 1] = <<>>
        /\ saved.tag = "Done" =>
              /\ IsOk(saved.res)
              /\ Len(fresh.rows.notes) = 1
              /\ fresh.rows.notes[1].tags = SqlText(text)

\* two spaces in a row after a tag, loaded and written back
C26_Witness ==
    /\ db.rows.notes[1].tags = SqlText(<<"a", " ", " ">>)
    /\ IsOk(loaded) /\ loaded.val.notes[1].tags = <<<<"a">>, <<>>, <<>>>>
    /\ saved.tag = "Done" /\ IsOk(saved.res)
    /\ fresh.rows.notes[1].tags = SqlText(<<"a", " ", " ">>)

\* C27: the separator of the flds column is the one character 0x1F: a
\* column of n values separated by 0x1F loads as those n values, and after
\* Note::save_all and a second load every value is as it was, a NUL and
\* the characters x1f within a value included.
C27_FieldSeparatorIsUnitSeparator ==
    LET text == db.rows.notes[1].flds.s
        values == split(text, <<"US">>, <<>>)
    IN  /\ IsOk(loaded) =>
              /\ Len(loaded.val.notes[1].fields) = Count(text, "US") + 1
              /\ loaded.val.notes[1].fields = values
        /\ reloaded.tag # "Idle" =>
              /\ IsOk(reloaded)
              /\ reloaded.val.notes[1].fields = values

\* the key is the decimal text of an integer as i64::to_string writes it: no
\* plus sign, no zero before another digit, no minus before a zero alone
Canonical(key) ==
    LET body == IF key[1] = "-" THEN Tail(key) ELSE key
    IN  /\ DecimalInteger(key) /\ key[1] # "+"
        /\ body[1] = "0" => key = <<"0">>

\* every model of the serialized document stands at the place, under the
\* key and with the id field it has in the document that was parsed
KeysAndIdsKept ==
    /\ Len(emitted.text.j.m) = Len(doc.text.j.m)
    /\ \A k \in DOMAIN doc.text.j.m :
          /\ emitted.text.j.m[k].k = doc.text.j.m[k].k
          /\ Get(emitted.text.j.m[k].v, "id") = Get(doc.text.j.m[k].v, "id")

\* C28 as stated: for every Models document, those in which a key differs
\* from the id field included, Model::to_json_all(Model::parse(text)) has
\* each model under its original key with its original id field.
C28_KeyAndIdKept_AsStated ==
    (doc.kind = "Model" /\ IsOk(parsed) /\ emitted.tag = "Text") => KeysAndIdsKept

\* C28, amended: the same for every Models document whose keys are written
\* as i64::to_string writes them; the parsed model holds the key as epoch
\* and the id field as id, two separate values.
C28_KeyAndIdKept ==
    (doc.kind = "Model" /\ IsOk(parsed)
        /\ \A k \in DOMAIN doc.text.j.m : Canonical(doc.text.j.m[k].k)) =>
        /\ \A k \in DOMAIN doc.text.j.m :
              /\ to_string(parsed.val[k].epoch) = doc.text.j.m[k].k
              /\ JInt(parsed.val[k].id) = Get(doc.text.j.m[k].v, "id")
        /\ emitted.tag = "Text" => KeysAndIdsKept

\* two models, the first under the key 10 with the id field 1
C28_Witness ==
    /\ doc.kind = "Model" /\ IsOk(parsed) /\ emitted.tag = "Text"
    /\ Len(doc.text.j.m) = 2
    /\ doc.text.j.m[1].k = <<"1", "0">> /\ Get(doc.text.j.m[1].v, "id") = JInt(1)
    /\ doc.text.j.m[2].k = <<"2">>
    /\ emitted.text.j.m[1].k = <<"1", "0">> /\ Get(emitted.text.j.m[1].v, "id") = JInt(1)

-----------------------------------------------------------------------------
(* Claims about the counts of a Deck and the policies of a DeckConfig.     *)

\* C29: Deck::new fills new_today from newToday, learned_today from
\* lrnToday and reviewed_today from revToday, also when the revToday pair
\* differs from the lrnToday pair; and a deck whose revToday is missing or
\* is no array of two integers fails to parse.
C29_TodayPairsFromOwnKeys ==
    LET pair(key) == <<EntryObject[key].a[1].i, EntryObject[key].a[2].i>>
        others == RequiredFields.Deck \ {"revToday"}
        \* complete but for revToday
        lacking == /\ \A k \in others : k \in DOMAIN EntryObject
                                          /\ EntryObject[k].t = BaseDeck[k].t
                   /\ IsPair(EntryObject.newToday) /\ IsPair(EntryObject.lrnToday)
                   /\ "revToday" \notin DOMAIN EntryObject \/ ~IsPair(EntryObject.revToday)
    IN  (doc.kind = "Deck" /\ SingleEntry /\ parsed.tag # "Idle") =>
            /\ CompleteDeck(EntryObject) =>
                  /\ IsOk(parsed)
                  /\ parsed.val[1].new_today = pair("newToday")
                  /\ parsed.val[1].learned_today = pair("lrnToday")
                  /\ parsed.val[1].reviewed_today = pair("revToday")
            /\ lacking => parsed.tag = "Err"

\* C30: every DeckConfig that DeckConfig::parse returns has its lapse, new
\* and review policies present; a configuration without a lapse, new or rev
\* object is a parse error; so DeckConfig::to_json, which unwraps the three,
\* meets no absent policy and writes all three objects.
C30_SubPoliciesPresent ==
    LET policies == {"lapse", "new", "rev"}
    IN  (doc.kind = "DeckConfig" /\ parsed.tag # "Idle") =>
            /\ IsOk(parsed) =>
                  \A k \in DOMAIN parsed.val :
                      /\ parsed.val[k].lapse.some
                      /\ parsed.val[k].new.some
                      /\ parsed.val[k].review.some
            /\ (SingleEntry /\ \E s \in policies :
                    s \notin DOMAIN EntryObject \/ EntryObject[s].t # "obj") =>
                  parsed.tag = "Err"
            /\ emitted.tag = "Text" =>
                  \A k \in DOMAIN emitted.text.j.m : \A s \in policies :
                      Get(emitted.text.j.m[k].v, s).t = "obj"

\* two configurations, parsed and written with their policies
C30_Witness ==
    /\ doc.kind = "DeckConfig" /\ IsOk(parsed) /\ Len(parsed.val) = 2
    /\ \A k \in 1..2 : parsed.val[k].lapse.some /\ parsed.val[k].new.some
                       /\ parsed.val[k].review.some
    /\ emitted.tag = "Text" /\ Len(emitted.text.j.m) = 2
    /\ \A k \in 1..2 : Get(emitted.text.j.m[k].v, "lapse").t = "obj"

=============================================================================
